---- MODULE Spec2Model ----
(***************************************************************************)
(* A model of the PDF converter's batch walker (pdf_converter_cli.py):     *)
(* the format classifier, the per-file dispatch, the output path policy    *)
(* (mirror / flatten / combine), the per-file loop with its counters, and  *)
(* the command line's exit code.                                           *)
(*                                                                         *)
(* File and directory names are sequences of one-character strings, so     *)
(* that suffix extraction, lower-casing, separator replacement and the     *)
(* numeric suffix of the flatten policy are computed, not assumed.         *)
(* Console output (print) is modelled as total: it never raises.           *)
(***************************************************************************)
EXTENDS Integers, Sequences, FiniteSets, TLC

\* ------------------------------------------------------------------ bounds

\* Largest number of files in the source tree of one run.
MaxFiles == 3
\* Largest number of direct API calls in one behaviour of SpecUnit.
MaxCalls == 2
\* Largest number of files in the source tree of a batch that is run twice.
MaxTwiceFiles == 2
\* Longest list of files of any kind handed to the combiner.
MaxCombineFiles == 2
\* Longest list of files of two kinds handed to the combiner.
MaxPageFiles == 11
\* Largest number of sheets of a workbook.
MaxSheets == 2
\* Largest number of sheets of a workbook whose sheets are all alike.
MaxSameSheets == 18
\* Largest number of slides of a presentation.
MaxSlides == 3
\* Largest number of batches started from the GUI.
MaxBatches == 2
\* Largest number of files a GUI batch finds.
MaxGuiFiles == 2
\* Largest number of log_message calls of one thread.
MaxLogCalls == 3

\* ------------------------------------------------------- strings as char seqs

UpperAlphabet ==
    << "A","B","C","D","E","F","G","H","I","J","K","L","M",
       "N","O","P","Q","R","S","T","U","V","W","X","Y","Z" >>

LowerAlphabet ==
    << "a","b","c","d","e","f","g","h","i","j","k","l","m",
       "n","o","p","q","r","s","t","u","v","w","x","y","z" >>

DigitChars == << "0","1","2","3","4","5","6","7","8","9" >>

\* str.lower() on one character.
LowerChar(c) ==
    IF \E i \in 1..26 : UpperAlphabet[i] = c
    THEN LowerAlphabet[CHOOSE i \in 1..26 : UpperAlphabet[i] = c]
    ELSE c

\* str.lower()
LowerStr(s) == [i \in 1..Len(s) |-> LowerChar(s[i])]

\* str.rfind(ch), 1-based; 0 when ch does not occur (Python's -1).
RFind(s, ch) ==
    LET hits == {i \in 1..Len(s) : s[i] = ch}
    IN  IF hits = {} THEN 0 ELSE CHOOSE i \in hits : \A j \in hits : j <= i

\* pathlib's PurePath.suffix of a final path component: the part from the
\* last dot, unless that dot is the first or the last character.
Suffix(name) ==
    LET j == RFind(name, ".")
    IN  IF 1 < j /\ j < Len(name) THEN SubSeq(name, j, Len(name)) ELSE << >>

\* pathlib's PurePath.stem.
Stem(name) ==
    LET j == RFind(name, ".")
    IN  IF 1 < j /\ j < Len(name) THEN SubSeq(name, 1, j - 1) ELSE name

\* str.replace(old, new) for single characters.
ReplaceChar(s, old, new) == [i \in 1..Len(s) |-> IF s[i] = old THEN new ELSE s[i]]

\* str(n) for n >= 0: the decimal digits of n.
RECURSIVE DecimalStr(_)
DecimalStr(n) ==
    IF n < 10 THEN << DigitChars[n + 1] >>
    ELSE DecimalStr(n \div 10) \o << DigitChars[(n % 10) + 1] >>

\* str(path) of a relative directory: its components joined by "/"
\* ("." for the empty relative path).
RECURSIVE JoinPath(_)
JoinPath(comps) ==
    IF Len(comps) = 0 THEN << "." >>
    ELSE IF Len(comps) = 1 THEN comps[1]
    ELSE comps[1] \o << "/" >> \o JoinPath(Tail(comps))

PdfExtension == << ".", "p", "d", "f" >>

\* ------------------------------------------------------------ the classifier

\* PDFConverter.supported_formats, in the dictionary's insertion order.
supported_formats ==
    << [category |-> "images",
        extensions |-> { <<".","j","p","g">>, <<".","j","p","e","g">>,
                         <<".","p","n","g">>, <<".","g","i","f">>,
                         <<".","b","m","p">>, <<".","t","i","f","f">>,
                         <<".","w","e","b","p">> }],
       [category |-> "documents",
        extensions |-> { <<".","d","o","c","x">>, <<".","t","x","t">>,
                         <<".","m","d">> }],
       [category |-> "spreadsheets",
        extensions |-> { <<".","x","l","s","x">>, <<".","x","l","s">> }],
       [category |-> "presentations",
        extensions |-> { <<".","p","p","t","x">> }],
       [category |-> "pdf",
        extensions |-> { <<".","p","d","f">> }] >>

\* The classifier's "unsupported" result (Python's None).
None == "None"

\* Mutant of get_file_type: the suffix is not lower-cased.
get_file_type_case_sensitive(name) ==
    LET extension == Suffix(name)
        hits == {i \in 1..Len(supported_formats) :
                    extension \in supported_formats[i].extensions}
    IN  IF hits = {} THEN None
        ELSE supported_formats[CHOOSE i \in hits : \A j \in hits : i <= j].category

\* PDFConverter.get_file_type: the first category, in table order, whose
\* extension list holds the lower-cased suffix of the path's last component.
get_file_type(name) ==
    LET extension == LowerStr(Suffix(name))
        hits == {i \in 1..Len(supported_formats) :
                    extension \in supported_formats[i].extensions}
    IN  IF hits = {} THEN None
        ELSE supported_formats[CHOOSE i \in hits : \A j \in hits : i <= j].category

\* PDFConverter.convert_file, the dispatch: the renderer chosen for a path
\* ("none": no renderer is invoked).
Renderer(name) ==
    LET file_type == get_file_type(name)
        ext == LowerStr(Suffix(name))
    IN  IF file_type = None THEN "none"
        ELSE IF file_type = "images" THEN "convert_image_to_pdf"
        ELSE IF file_type = "documents"
             THEN IF ext = <<".","d","o","c","x">> THEN "convert_docx_to_pdf"
                  ELSE IF ext = <<".","t","x","t">> THEN "convert_txt_to_pdf"
                  ELSE IF ext = <<".","m","d">> THEN "convert_md_to_pdf"
                  ELSE "none"
        ELSE IF file_type = "spreadsheets" THEN "convert_xlsx_to_pdf"
        ELSE IF file_type = "presentations" THEN "convert_pptx_to_pdf"
        ELSE IF file_type = "pdf" THEN "copy2"
        ELSE "none"

\* What the library work behind a renderer does with the output path:
\*   "ok"      the output file is written completely;
\*   "error"   the library raises before the output path is touched;
\*   "partial" the library raises after it created or truncated the output.
IoOutcomes == {"ok", "error", "partial"}

\* What the chosen renderer hands back to convert_file: the five converters
\* wrap their body in try/except Exception and return True or False;
\* shutil.copy2 is called bare and raises.
RendererReturn(renderer, io) ==
    IF renderer = "copy2"
    THEN IF io = "ok" THEN "True" ELSE "raise"
    ELSE IF io = "ok" THEN "True" ELSE "False"

\* Mutant of convert_file: no try/except around the dispatch.
convert_file_uncaught(name, io) ==
    LET renderer == Renderer(name)
    IN  IF renderer = "none" THEN "False" ELSE RendererReturn(renderer, io)

\* PDFConverter.convert_file's result for a path and an I/O outcome:
\* "True", "False", or "raise" when an exception leaves the method.
convert_file(name, io) ==
    LET renderer == Renderer(name)
    IN  IF renderer = "none" THEN "False"
        ELSE LET v == RendererReturn(renderer, io)
             IN  IF v = "raise" THEN "False" ELSE v

\* ------------------------------------------------------ the output file system

\* A path below the output directory is the sequence of its components;
\* << >> is the output directory itself.
IsPrefix(p, q) == Len(p) <= Len(q) /\ SubSeq(q, 1, Len(p)) = p

Parent(p) == SubSeq(p, 1, Len(p) - 1)

\* Path.exists()
Exists(files, directories, p) == p \in DOMAIN files \/ p \in directories

\* A source file: its directory relative to the source root, and its name.
File(dir, name) == [dir |-> dir, name |-> name]

NoFile == File(<< >>, << >>)

\* The content of an output file: which run wrote it, from which input, and
\* whether the write completed.
Content(origin, src, complete) == [origin |-> origin, src |-> src, complete |-> complete]

OldContent == Content("previous run", NoFile, TRUE)

\* The output files after a renderer ran on (f, dest) with outcome io.
WriteFile(files, f, dest, io) ==
    IF Renderer(f.name) = "none" \/ io = "error" THEN files
    ELSE [p \in DOMAIN files \cup {dest} |->
            IF p = dest THEN Content("this run", f, io = "ok") ELSE files[p]]

\* The outcomes the file system allows for a write to dest: a destination
\* that is a directory, or whose parent is no directory, cannot be opened.
PossibleIo(directories, dest) ==
    IF dest \in directories \/ Parent(dest) \notin directories
    THEN {"error"}
    ELSE IoOutcomes

\* Path.mkdir(parents=True, exist_ok=True) raises when a component of the
\* path is an existing file.
MkdirRaises(files, d) == \E k \in 1..Len(d) : SubSeq(d, 1, k) \in DOMAIN files

MkdirParents(directories, d) == directories \cup {SubSeq(d, 1, k) : k \in 0..Len(d)}

\* --------------------------------------------------------- output path policy

\* Mutant of MirrorDest: the relative directory is dropped.
MirrorDestNoSubdir(f) == << Stem(f.name) \o PdfExtension >>

\* convert_directory, mirror branch: the destination of input f.
MirrorDest(f) == f.dir \o << Stem(f.name) \o PdfExtension >>

\* convert_directory, flatten branch: the base name of input f.
FlatBaseName(f) ==
    IF f.dir # << >>
    THEN ReplaceChar(ReplaceChar(JoinPath(f.dir), "/", "_"), "\\", "_")
            \o << "_" >> \o Stem(f.name)
    ELSE Stem(f.name)

\* Mutant of UniqueLoop: the counter is incremented before it is used.
RECURSIVE UniqueLoopSkipping(_, _, _, _)
UniqueLoopSkipping(existing, base_name, output_path, counter) ==
    IF output_path \in existing
    THEN UniqueLoopSkipping(existing, base_name,
            << base_name \o << "_" >> \o DecimalStr(counter + 1) \o PdfExtension >>,
            counter + 1)
    ELSE output_path

RECURSIVE UniqueLoop(_, _, _, _)
UniqueLoop(existing, base_name, output_path, counter) ==
    IF output_path \in existing
    THEN UniqueLoop(existing, base_name,
                    << base_name \o << "_" >> \o DecimalStr(counter) \o PdfExtension >>,
                    counter + 1)
    ELSE output_path

\* Mutant of generate_unique_filename: the name is not checked against the
\* output directory.
generate_filename_unchecked(existing, base_name) == << base_name \o PdfExtension >>

\* generate_unique_filename(output_dir, base_name): existing is the set of
\* paths that exist below the output directory when it is called.
generate_unique_filename(existing, base_name) ==
    UniqueLoop(existing, base_name, << base_name \o PdfExtension >>, 1)

\* ------------------------------------------------------------- the source tree

\* The files a source tree is drawn from: same stem with two extensions,
\* a subdirectory file whose flattened name is a root file's stem, a file two
\* levels down, a stem that looks like a numbered name, an upper-case
\* extension, an unsupported extension, an existing PDF, and a directory
\* whose name is another input's destination name.
Pool ==
    { File(<< >>, <<"r",".","t","x","t">>),
      File(<< >>, <<"r",".","m","d">>),
      File(<< <<"x">> >>, <<"r",".","t","x","t">>),
      File(<< >>, <<"x","_","r",".","t","x","t">>),
      File(<< <<"x">>, <<"y">> >>, <<"r",".","m","d">>),
      File(<< >>, <<"r","_","1",".","P","N","G">>),
      File(<< >>, <<"n",".","e","x","e">>),
      File(<< >>, <<"r",".","p","d","f">>),
      File(<< <<"r",".","p","d","f">> >>, <<"r",".","t","x","t">>) }

Trees == {t \in SUBSET Pool : Cardinality(t) <= MaxFiles}

\* The names the source directory is drawn from.
DirectoryNames == { <<"s">>, <<"r">> }

EmptyFiles == [p \in {} |-> OldContent]

OldFiles(paths) == [p \in paths |-> OldContent]

\* What a previous run may have left in the output directory: nothing, the
\* file r.pdf, or a directory named r.pdf.
PreviousOutputs ==
    { [files |-> EmptyFiles, dirs |-> {<< >>}],
      [files |-> OldFiles({ << <<"r",".","p","d","f">> >> }), dirs |-> {<< >>}],
      [files |-> EmptyFiles, dirs |-> {<< >>, << <<"r",".","p","d","f">> >>}] }

\* os.walk(top-down): the files of a directory are yielded together, before
\* those of its subdirectories, and a subtree is left only once.  The order
\* inside a directory is the operating system's.
IsWalkOrder(seq) ==
    /\ \A i, j \in 1..Len(seq) :
          i < j => ~(seq[j].dir # seq[i].dir /\ IsPrefix(seq[j].dir, seq[i].dir))
    /\ \A i, j, k \in 1..Len(seq) :
          (i < j /\ j < k) =>
             \A n \in 0..Len(seq[i].dir) :
                IsPrefix(SubSeq(seq[i].dir, 1, n), seq[k].dir)
                   => IsPrefix(SubSeq(seq[i].dir, 1, n), seq[j].dir)

WalkOrders(t) ==
    {seq \in [1..Cardinality(t) -> t] :
        /\ \A i, j \in 1..Cardinality(t) : i # j => seq[i] # seq[j]
        /\ IsWalkOrder(seq)}

\* The walker's filter: the files the classifier supports, in walk order.
RECURSIVE SupportedOf(_)
SupportedOf(seq) ==
    IF seq = << >> THEN << >>
    ELSE IF get_file_type(Head(seq).name) # None
         THEN << Head(seq) >> \o SupportedOf(Tail(seq))
         ELSE SupportedOf(Tail(seq))

\* ----------------------------------------------------------------------- state

VARIABLES
    pc,                      \* where the run is: "main", "walk", "combine", "loop",
                             \* "returned", "exited"; "api" for direct calls
    directory_state,         \* the source path: "ok", "missing", "notdir"
    output_dir_state,        \* the output path: "exists", "absent", "unusable"
    maintain_structure,      \* not --flat
    combine,                 \* --combine
    directory_name,          \* directory_path.name
    tree,                    \* the files below the source directory
    fs,                      \* output files: path -> content
    fs0,                     \* the output files when the run started
    dirs,                    \* output directories (paths)
    all_files,               \* convert_directory's all_files
    types,                   \* the classifier's latest answers: name -> category
    processed,               \* iterations of the per-file loop completed
    successful_conversions,
    failed_conversions,
    calls,                   \* history: one record per file attempt
    combiner_calls,          \* history: one record per combiner invocation
    gen,                     \* history: the last generate_unique_filename call
    ret,                     \* convert_directory's return value
    exit_code,               \* the process's exit code, -1 while running
    interrupted,             \* a KeyboardInterrupt reached main, whose handler
                             \* printed "Conversion interrupted by user"
    reported,                \* the error lines convert_directory's source checks printed
    first_run,               \* history: what the first of two runs enumerated and wrote
    library,                 \* two runs: what the library does with each source file
    combine_files,           \* combine_files_to_single_pdf: its files argument
    story,                   \* combine_files_to_single_pdf: the flowables appended so far
    combine_i,               \* combine_files_to_single_pdf: entries of the loop completed
    combine_result,          \* combine_files_to_single_pdf: "none" while it runs, then
                             \* "True" or "False"; with how it ended
    workbook,                \* convert_xlsx_to_pdf: the sheets of the loaded workbook
    sheet_num,               \* convert_xlsx_to_pdf: the sheet being drawn (0: none yet)
    row_num,                 \* convert_xlsx_to_pdf: rows of that sheet gone through
    presentation,            \* convert_pptx_to_pdf: the slides of the loaded presentation
    slide_num,               \* convert_pptx_to_pdf: the slide being drawn (0: none yet)
    line_num,                \* convert_pptx_to_pdf: text lines of that slide gone through
    y_position,              \* the canvas renderers' vertical cursor
    pages,                   \* the canvas: calls of showPage so far
    drawn,                   \* the canvas: history of the drawString calls
    convert_button,          \* GUI: the convert button's state, "normal" or "disabled"
    threads,                 \* GUI: the batch worker threads, by number
    output_dir,              \* --output: "given", or "default" for <directory>/pdf
    progress_bar,            \* GUI: the progress bar's maximum and value
    results_text,            \* GUI: the results area's state and its lines
    log_call,                \* GUI: the worker's log_message call under way
    log_messages             \* GUI: history of the messages passed to log_message

\* The variables the batch walker itself never touches.
combiner_vars == << combine_files, story, combine_i, combine_result >>

canvas_vars ==
    << workbook, sheet_num, row_num, presentation, slide_num, line_num,
       y_position, pages, drawn >>

gui_vars == << convert_button, threads >>

widget_vars == << progress_bar, results_text, log_call, log_messages >>

aux_vars ==
    << first_run, library, combiner_vars, canvas_vars, gui_vars, output_dir,
       widget_vars >>

vars ==
    << aux_vars, pc, directory_state, output_dir_state, maintain_structure, combine,
       directory_name, tree, fs, fs0, dirs, all_files, types, processed,
       successful_conversions, failed_conversions, calls, combiner_calls, gen,
       ret, exit_code, interrupted, reported >>

Attempt(src, dest, mode, renderer, io, outcome, dir_ready) ==
    [src |-> src, dest |-> dest, mode |-> mode, renderer |-> renderer,
     io |-> io, outcome |-> outcome, dir_ready |-> dir_ready]

NoGen == [called |-> FALSE, existing |-> {}, base_name |-> << >>, path |-> << >>]

NoTypes == [n \in {} |-> None]

NoFirstRun == [done |-> FALSE, all_files |-> << >>, names |-> {}]

\* The variables of the other entry points while the batch walker runs.
NoResult == [value |-> "none", built |-> FALSE]

CombinerIdle ==
    /\ combine_files = << >>
    /\ story = << >>
    /\ combine_i = 0
    /\ combine_result = NoResult

CanvasIdle ==
    /\ workbook = << >>
    /\ sheet_num = 0
    /\ row_num = 0
    /\ presentation = << >>
    /\ slide_num = 0
    /\ line_num = 0
    /\ y_position = 0
    /\ pages = 0
    /\ drawn = << >>

\* No window has been created.
GuiIdle ==
    /\ convert_button = "normal"
    /\ threads = << >>

\* ttk.Progressbar(mode='determinate'): maximum 100, value 0.
NoProgress == [maximum |-> 100, value |-> 0]

\* The results area as start_conversion leaves it: emptied and read-only.
EmptyResults == [state |-> "disabled", lines |-> << >>]

\* A message passed to log_message: the thread that passed it, and its
\* number among that thread's messages.
Message(by, n) == [by |-> by, n |-> n]

NoLogCall == [at |-> "idle", message |-> Message("none", 0)]

\* The window's other widgets, untouched.
WidgetIdle ==
    /\ progress_bar = NoProgress
    /\ results_text = EmptyResults
    /\ log_call = NoLogCall
    /\ log_messages = << >>

AuxIdle ==
    /\ first_run = NoFirstRun
    /\ library = << >>
    /\ CombinerIdle
    /\ CanvasIdle
    /\ GuiIdle
    /\ WidgetIdle

ExistingPaths == DOMAIN fs \cup dirs

\* ------------------------------------------------------------------------ Init

InitCommon ==
    /\ all_files = << >>
    /\ types = NoTypes
    /\ processed = 0
    /\ successful_conversions = 0
    /\ failed_conversions = 0
    /\ calls = << >>
    /\ combiner_calls = << >>
    /\ gen = NoGen
    /\ ret = FALSE
    /\ exit_code = -1
    /\ interrupted = FALSE
    /\ reported = << >>
    /\ fs0 = fs
    /\ AuxIdle

\* main() has parsed its arguments and is about to call convert_directory;
\* out says whether --output was given (a directory outside the source
\* tree) or the output directory is the default, <directory>/pdf.
InitWith(out) ==
    /\ pc = "main"
    /\ output_dir = out
    /\ directory_state \in {"ok", "missing", "notdir"}
    /\ output_dir_state \in {"exists", "absent", "unusable"}
    /\ maintain_structure \in BOOLEAN
    /\ combine \in BOOLEAN
    /\ directory_name \in DirectoryNames
    /\ tree \in Trees
    /\ directory_state # "ok" => tree = {} /\ output_dir_state = "absent"
    /\ output_dir_state = "unusable" => tree = {}
    /\ ~combine => directory_name = <<"s">>
    /\ \E prev \in PreviousOutputs :
          IF output_dir_state = "exists"
          THEN fs = prev.files /\ dirs = prev.dirs
          ELSE fs = EmptyFiles /\ dirs = {}
    /\ InitCommon

Init == InitWith("given")

InitDefault == InitWith("default")

\* ------------------------------------------------------- convert_directory

\* The line convert_directory prints for a source path it rejects.
SourceError(state) ==
    IF state = "missing" THEN "does not exist" ELSE "is not a directory"

\* Mutant of Validate: the output directory is created before the source
\* path is checked.
ValidateMkdirFirst ==
    /\ pc = "main"
    /\ IF directory_state # "ok"
       THEN /\ reported' = Append(reported, SourceError(directory_state))
            /\ dirs' = dirs \cup {<< >>}
            /\ ret' = FALSE
            /\ pc' = "returned"
            /\ UNCHANGED << output_dir_state, exit_code >>
       ELSE IF output_dir_state = "unusable"
       THEN /\ pc' = "exited"
            /\ exit_code' = 1
            /\ UNCHANGED << dirs, output_dir_state, ret, reported >>
       ELSE /\ dirs' = dirs \cup {<< >>}
            /\ output_dir_state' = "exists"
            /\ pc' = "walk"
            /\ UNCHANGED << ret, exit_code, reported >>
    /\ UNCHANGED << aux_vars, directory_state, maintain_structure, combine,
                    directory_name, tree, fs, fs0, all_files, types, processed,
                    successful_conversions, failed_conversions, calls,
                    combiner_calls, gen, interrupted >>

\* The source checks and the creation of the output directory.  A source
\* path that is missing or no directory prints its error line and returns
\* False; an output directory that cannot be created raises out of
\* convert_directory into main's "except Exception", which exits with 1.
Validate ==
    /\ pc = "main"
    /\ IF directory_state # "ok"
       THEN /\ reported' = Append(reported, SourceError(directory_state))
            /\ ret' = FALSE
            /\ pc' = "returned"
            /\ UNCHANGED << dirs, output_dir_state, exit_code >>
       ELSE IF output_dir_state = "unusable"
       THEN /\ pc' = "exited"
            /\ exit_code' = 1
            /\ UNCHANGED << dirs, output_dir_state, ret, reported >>
       ELSE /\ dirs' = dirs \cup {<< >>}
            /\ output_dir_state' = "exists"
            /\ pc' = "walk"
            /\ UNCHANGED << ret, exit_code, reported >>
    /\ UNCHANGED << aux_vars, directory_state, maintain_structure, combine,
                    directory_name, tree, fs, fs0, all_files, types, processed,
                    successful_conversions, failed_conversions, calls,
                    combiner_calls, gen, interrupted >>

\* Mutant of AfterWalk: an empty list is not returned early.
AfterWalkNoEmptyCheck(files) == IF combine THEN "combine" ELSE "loop"

\* Mutant of AfterWalk: --flat turns combine mode off.
AfterWalkFlatFirst(files) ==
    IF files = << >> THEN "returned"
    ELSE IF combine /\ maintain_structure THEN "combine"
    ELSE "loop"

\* Where convert_directory goes once all_files is built: it returns on an
\* empty list, else combine mode takes precedence over the per-file loop.
AfterWalk(files) ==
    IF files = << >> THEN "returned"
    ELSE IF combine THEN "combine"
    ELSE "loop"

\* pdf_output_dir = directory_path / "pdf"
OutputDirName == <<"p","d","f">>

\* The output files as the walk of the source directory meets them when
\* the output directory lies inside it.
FilesUnderOutput(files) ==
    {File(<< OutputDirName >> \o Parent(p), p[Len(p)]) : p \in DOMAIN files}

\* What os.walk(directory_path) finds: the source files, and with the
\* default output directory also what that directory holds.
Walked(files) ==
    IF output_dir = "default" THEN tree \cup FilesUnderOutput(files) ELSE tree

\* The walk: every file below the source directory is classified, the
\* supported ones are kept in walk order; an empty list returns False.
Enumerate ==
    /\ pc = "walk"
    /\ \E order \in WalkOrders(Walked(fs)) :
          /\ all_files' = SupportedOf(order)
          /\ types' = [n \in {f.name : f \in Walked(fs)} |-> get_file_type(n)]
    /\ pc' = AfterWalk(all_files')
    /\ ret' = IF pc' = "returned" THEN FALSE ELSE ret
    /\ UNCHANGED << aux_vars, reported, directory_state, output_dir_state, maintain_structure, combine,
                    directory_name, tree, fs, fs0, dirs, processed,
                    successful_conversions, failed_conversions, calls,
                    combiner_calls, gen, exit_code, interrupted >>

CombinedName == directory_name \o <<"_","c","o","m","b","i","n","e","d">> \o PdfExtension

\* Combine mode: one call of combine_files_to_single_pdf on the whole list;
\* its result is convert_directory's.  The combiner returns False when an
\* exception reaches its outer handler (from building the document, or from
\* its loop: SpecCombiner follows the loop entry by entry).
Combine ==
    /\ pc = "combine"
    /\ LET dest == << CombinedName >>
       IN  \E io \in PossibleIo(dirs, dest) :
              /\ combiner_calls' = Append(combiner_calls,
                    [files |-> all_files, dest |-> dest, result |-> (io = "ok")])
              /\ fs' = IF io = "error" THEN fs
                       ELSE [p \in DOMAIN fs \cup {dest} |->
                               IF p = dest THEN Content("this run", NoFile, io = "ok")
                               ELSE fs[p]]
              /\ ret' = (io = "ok")
    /\ pc' = "returned"
    /\ UNCHANGED << aux_vars, reported, directory_state, output_dir_state, maintain_structure, combine,
                    directory_name, tree, fs0, dirs, all_files, types, processed,
                    successful_conversions, failed_conversions, calls, gen,
                    exit_code, interrupted >>

\* convert_file(str(file_path), str(output_path)) with the library outcome
\* io, the output directories being `directories` when it is called: the
\* output files afterwards, and the record of the attempt.
ConvertFileCall(f, dest, mode, io, directories) ==
    /\ fs' = WriteFile(fs, f, dest, io)
    /\ calls' = Append(calls,
          Attempt(f, dest, mode, Renderer(f.name), io, convert_file(f.name, io),
                  Parent(dest) \in directories))

\* Mutant of Count: a failure is not counted.
CountSuccessOnly(result) ==
    /\ successful_conversions' =
          IF result = "True" THEN successful_conversions + 1 ELSE successful_conversions
    /\ failed_conversions' = failed_conversions

\* The loop's counting: True counts a success; False, or an exception caught
\* by the loop's "except Exception", counts a failure.
Count(result) ==
    IF result = "True"
    THEN /\ successful_conversions' = successful_conversions + 1
         /\ failed_conversions' = failed_conversions
    ELSE /\ failed_conversions' = failed_conversions + 1
         /\ successful_conversions' = successful_conversions

\* Mutant of ProcessMirror: the file's position in the list is part of the
\* destination's name.
ProcessMirrorNumbered(f) ==
    LET dest == f.dir \o << Stem(f.name) \o << "_" >>
                            \o DecimalStr(processed + 1) \o PdfExtension >>
    IN  IF MkdirRaises(fs, f.dir)
        THEN /\ Count("path error")
             /\ calls' = Append(calls,
                   Attempt(f, << >>, "mirror", "none", "none", "path error", FALSE))
             /\ UNCHANGED << fs, dirs, gen >>
        ELSE /\ dirs' = MkdirParents(dirs, f.dir)
             /\ gen' = gen
             /\ \E io \in PossibleIo(dirs', dest) :
                   /\ ConvertFileCall(f, dest, "mirror", io, dirs')
                   /\ Count(convert_file(f.name, io))

\* Mirror mode: the subdirectory is created, the destination is
\* <output>/<relative directory>/<stem>.pdf; a failing mkdir is an exception
\* inside the loop's try, counted as a failure.
ProcessMirror(f) ==
    IF MkdirRaises(fs, f.dir)
    THEN /\ Count("path error")
         /\ calls' = Append(calls,
               Attempt(f, << >>, "mirror", "none", "none", "path error", FALSE))
         /\ UNCHANGED << fs, dirs, gen >>
    ELSE /\ dirs' = MkdirParents(dirs, f.dir)
         /\ gen' = gen
         /\ \E io \in PossibleIo(dirs', MirrorDest(f)) :
               /\ ConvertFileCall(f, MirrorDest(f), "mirror", io, dirs')
               /\ Count(convert_file(f.name, io))

\* Flatten mode: the destination is a name unused in the output directory
\* at this moment.
ProcessFlat(f) ==
    LET base_name == FlatBaseName(f)
        output_path == generate_unique_filename(ExistingPaths, base_name)
    IN  /\ gen' = [called |-> TRUE, existing |-> ExistingPaths,
                   base_name |-> base_name, path |-> output_path]
        /\ dirs' = dirs
        /\ \E io \in PossibleIo(dirs, output_path) :
              /\ ConvertFileCall(f, output_path, "flat", io, dirs)
              /\ Count(convert_file(f.name, io))

\* Mutant of ProcessFile: the loop ends at the first failure.
ProcessFileAborting ==
    /\ pc = "loop"
    /\ processed < Len(all_files)
    /\ LET f == all_files[processed + 1]
       IN  IF maintain_structure THEN ProcessMirror(f) ELSE ProcessFlat(f)
    /\ processed' = IF failed_conversions' > failed_conversions
                    THEN Len(all_files) ELSE processed + 1
    /\ UNCHANGED << aux_vars, reported, pc, directory_state, output_dir_state, maintain_structure,
                    combine, directory_name, tree, fs0, all_files, types,
                    combiner_calls, ret, exit_code, interrupted >>

\* The body of "for i, file_path in enumerate(all_files, 1)".
ProcessFile ==
    /\ pc = "loop"
    /\ processed < Len(all_files)
    /\ LET f == all_files[processed + 1]
       IN  IF maintain_structure THEN ProcessMirror(f) ELSE ProcessFlat(f)
    /\ processed' = processed + 1
    /\ UNCHANGED << aux_vars, reported, pc, directory_state, output_dir_state, maintain_structure,
                    combine, directory_name, tree, fs0, all_files, types,
                    combiner_calls, ret, exit_code, interrupted >>

\* Mutant of ReturnValue: success means that nothing failed.
ReturnValueNoFailure == failed_conversions = 0

\* convert_directory's return value after the loop.
ReturnValue == successful_conversions > 0

\* After the loop: the summary, and the return value.
Summary ==
    /\ pc = "loop"
    /\ processed = Len(all_files)
    /\ ret' = ReturnValue
    /\ pc' = "returned"
    /\ UNCHANGED << aux_vars, reported, directory_state, output_dir_state, maintain_structure, combine,
                    directory_name, tree, fs, fs0, dirs, all_files, types,
                    processed, successful_conversions, failed_conversions, calls,
                    combiner_calls, gen, exit_code, interrupted >>

\* ------------------------------------------------------------------------ main

\* sys.exit(0 if success else 1)
Exit ==
    /\ pc = "returned"
    /\ exit_code' = IF ret THEN 0 ELSE 1
    /\ pc' = "exited"
    /\ UNCHANGED << aux_vars, reported, directory_state, output_dir_state, maintain_structure, combine,
                    directory_name, tree, fs, fs0, dirs, all_files, types,
                    processed, successful_conversions, failed_conversions, calls,
                    combiner_calls, gen, ret, interrupted >>

\* Mutant of Interrupt: the loop's handler catches the interrupt as it
\* catches an Exception, counts a failure and goes on to the next file.
InterruptAbsorbed ==
    /\ pc = "loop"
    /\ processed < Len(all_files)
    /\ interrupted' = TRUE
    /\ failed_conversions' = failed_conversions + 1
    /\ processed' = processed + 1
    /\ UNCHANGED << aux_vars, reported, pc, directory_state, output_dir_state,
                    maintain_structure, combine, directory_name, tree, fs, fs0, dirs,
                    all_files, types, successful_conversions, calls, combiner_calls,
                    gen, ret, exit_code >>

\* A KeyboardInterrupt while convert_directory runs: no "except Exception"
\* catches it, main's handler reports it and exits with 1.
Interrupt ==
    /\ pc \in {"main", "walk", "combine", "loop", "returned"}
    /\ interrupted' = TRUE
    /\ exit_code' = 1
    /\ pc' = "exited"
    /\ UNCHANGED << aux_vars, reported, directory_state, output_dir_state, maintain_structure, combine,
                    directory_name, tree, fs, fs0, dirs, all_files, types,
                    processed, successful_conversions, failed_conversions, calls,
                    combiner_calls, gen, ret >>

Next ==
    \/ Validate
    \/ Enumerate
    \/ Combine
    \/ ProcessFile
    \/ Summary
    \/ Exit
    \/ Interrupt

Spec == Init /\ [][Next]_vars

\* The same run without --output.
SpecDefault == InitDefault /\ [][Next]_vars

\* ----------------------------------------------------- direct calls of the API

\* Names handed to get_file_type and convert_file directly: those of the
\* pool, and names without a suffix, with a leading dot only, with two dots,
\* with mixed case, and of the remaining categories.
ApiNames ==
    {f.name : f \in Pool} \cup
    { <<"n">>,
      <<".","t","x","t">>,
      <<"a",".","b",".","J","p","G">>,
      <<"r",".","x","l","s">>,
      <<"r",".","p","p","t","x">>,
      <<"r",".","d","o","c","x">> }

\* Destinations handed to convert_file directly: a name in the output
\* directory, and a path whose directory does not exist.
ApiDests ==
    { << <<"o",".","p","d","f">> >>,
      << <<"m">>, <<"o",".","p","d","f">> >> }

InitUnit ==
    /\ pc = "api"
    /\ output_dir = "given"
    /\ directory_state = "ok"
    /\ output_dir_state = "exists"
    /\ maintain_structure = TRUE
    /\ combine = FALSE
    /\ directory_name = <<"s">>
    /\ tree = {}
    /\ fs = EmptyFiles
    /\ dirs = {<< >>}
    /\ InitCommon

\* converter.get_file_type(path)
ApiGetFileType ==
    /\ pc = "api"
    /\ Len(calls) < MaxCalls
    /\ \E n \in ApiNames : types' = [m \in {n} |-> get_file_type(m)]
    /\ UNCHANGED << aux_vars, reported, pc, directory_state, output_dir_state, maintain_structure,
                    combine, directory_name, tree, fs, fs0, dirs, all_files,
                    processed, successful_conversions, failed_conversions, calls,
                    combiner_calls, gen, ret, exit_code, interrupted >>

\* converter.convert_file(input_path, output_path); it classifies its input
\* first.
ApiConvertFile ==
    /\ pc = "api"
    /\ Len(calls) < MaxCalls
    /\ \E n \in ApiNames, dest \in ApiDests :
          \E io \in PossibleIo(dirs, dest) :
             /\ ConvertFileCall(File(<< >>, n), dest, "api", io, dirs)
             /\ types' = [m \in {n} |-> get_file_type(m)]
    /\ UNCHANGED << aux_vars, reported, pc, directory_state, output_dir_state, maintain_structure,
                    combine, directory_name, tree, fs0, dirs, all_files,
                    processed, successful_conversions, failed_conversions,
                    combiner_calls, gen, ret, exit_code, interrupted >>

NextUnit ==
    \/ ApiGetFileType
    \/ ApiConvertFile

SpecUnit == InitUnit /\ [][NextUnit]_vars

\* ------------------------------------------- the same mirror batch, run twice

\* The files the tree of a twice-run batch is drawn from: two inputs with one
\* destination, a second stem, a subdirectory, and a directory named like
\* another input's destination.
TwicePool ==
    { File(<< >>, <<"r",".","t","x","t">>),
      File(<< >>, <<"r",".","m","d">>),
      File(<< >>, <<"x","_","r",".","t","x","t">>),
      File(<< <<"x">> >>, <<"r",".","t","x","t">>),
      File(<< >>, <<"r",".","p","d","f">>),
      File(<< <<"r",".","p","d","f">> >>, <<"r",".","t","x","t">>) }

TwiceTrees == {t \in SUBSET TwicePool : Cardinality(t) <= MaxTwiceFiles}

\* main() is about to run a mirror batch on a tree whose files are what they
\* are (each one the library renders, rejects, or fails on half-way); the
\* output directory is absent or empty.
InitTwice ==
    /\ pc = "main"
    /\ directory_state = "ok"
    /\ output_dir_state \in {"exists", "absent"}
    /\ maintain_structure = TRUE
    /\ combine = FALSE
    /\ directory_name = <<"s">>
    /\ tree \in TwiceTrees
    /\ fs = EmptyFiles
    /\ dirs = IF output_dir_state = "exists" THEN {<< >>} ELSE {}
    /\ all_files = << >>
    /\ types = NoTypes
    /\ processed = 0
    /\ successful_conversions = 0
    /\ failed_conversions = 0
    /\ calls = << >>
    /\ combiner_calls = << >>
    /\ gen = NoGen
    /\ ret = FALSE
    /\ exit_code = -1
    /\ interrupted = FALSE
    /\ reported = << >>
    /\ fs0 = fs
    /\ first_run = NoFirstRun
    /\ library \in [tree -> IoOutcomes]
    /\ CombinerIdle
    /\ CanvasIdle
    /\ GuiIdle
    /\ WidgetIdle
    /\ output_dir = "given"

\* One iteration of the loop on an unchanged tree: the library does with
\* the file what its content makes it do, unless the destination cannot be
\* opened at all.
ProcessFileTwice ==
    /\ ProcessFile
    /\ LET c == calls'[Len(calls')]
       IN  \/ c.io = "none"
           \/ c.io = library[c.src]
           \/ c.io = "error" /\ PossibleIo(dirs', c.dest) = {"error"}

\* Between the two runs the output directory is cleared: removed, emptied,
\* or only its files deleted; then main() is entered again with the same
\* arguments.
ClearOutput ==
    /\ pc = "returned"
    /\ ~first_run.done
    /\ first_run' = [done |-> TRUE, all_files |-> all_files, names |-> DOMAIN fs]
    /\ fs' = EmptyFiles
    /\ fs0' = EmptyFiles
    /\ dirs' \in {{}, {<< >>}, dirs}
    /\ output_dir_state' = IF dirs' = {} THEN "absent" ELSE "exists"
    /\ pc' = "main"
    /\ all_files' = << >>
    /\ types' = NoTypes
    /\ processed' = 0
    /\ successful_conversions' = 0
    /\ failed_conversions' = 0
    /\ calls' = << >>
    /\ gen' = NoGen
    /\ ret' = FALSE
    /\ UNCHANGED << library, combiner_vars, canvas_vars, gui_vars, output_dir,
                    widget_vars, directory_state, maintain_structure,
                    combine, directory_name, tree, combiner_calls, exit_code,
                    interrupted, reported >>

NextTwice ==
    \/ Validate
    \/ Enumerate
    \/ ProcessFileTwice
    \/ Summary
    \/ ClearOutput

SpecTwice == InitTwice /\ [][NextTwice]_vars

\* ------------------------------------------------ combine_files_to_single_pdf

\* str.replace(old, new) for a single character old and a string new.
RECURSIVE ReplaceWith(_, _, _)
ReplaceWith(s, old, new) ==
    IF s = << >> THEN << >>
    ELSE (IF Head(s) = old THEN new ELSE << Head(s) >>)
            \o ReplaceWith(Tail(s), old, new)

AmpEntity == << "&","a","m","p",";" >>
LtEntity == << "&","l","t",";" >>
GtEntity == << "&","g","t",";" >>

\* Mutant of Escape: the ampersand is replaced last.
EscapeAmpLast(line) ==
    ReplaceWith(ReplaceWith(ReplaceWith(line, "<", LtEntity), ">", GtEntity),
                "&", AmpEntity)

\* line.replace('&', '&amp;').replace('<', '&lt;').replace('>', '&gt;')
Escape(line) ==
    ReplaceWith(ReplaceWith(ReplaceWith(line, "&", AmpEntity), "<", LtEntity),
                ">", GtEntity)

\* not line.strip(): the line holds nothing but blanks.
IsBlank(line) == \A k \in 1..Len(line) : line[k] = " "

\* reportlab's Paragraph(text, style) parses text as markup when it is
\* constructed and raises ValueError when a tag is opened and never closed.
MarkupError(text) ==
    /\ \E k \in 1..(Len(text) - 1) :
          /\ text[k] = "<"
          /\ \E m \in 1..26 : LowerChar(text[k + 1]) = LowerAlphabet[m]
    /\ ~\E k \in 1..(Len(text) - 1) : text[k] = "<" /\ text[k + 1] = "/"

\* A flowable of the story: its class, what it is there for, the variable
\* part of its text, the raw content line it was made from, and the entry
\* of the list it was appended for.
Flowable(kind, role, text, raw, i) ==
    [kind |-> kind, role |-> role, text |-> text, raw |-> raw, entry |-> i]

Paragraph(role, text, i) == Flowable("Paragraph", role, text, << >>, i)

Spacer(height, i) == Flowable("Spacer", "space", << DigitChars[(height % 10) + 1] >>, << >>, i)

\* What a stretch of code did: the flowables it appended, whether it raised,
\* and the text of the exception.
Done(added) == [added |-> added, raised |-> FALSE, e |-> << >>]

Raised(added, e) == [added |-> added, raised |-> TRUE, e |-> e]

\* str(relative_path)
RelativePath(f) ==
    IF f.dir = << >> THEN f.name ELSE JoinPath(f.dir) \o << "/" >> \o f.name

\* The loop over the content's lines: a line that is not blank becomes a
\* paragraph of its escaped text, a blank one a spacer.
RECURSIVE ContentLines(_, _)
ContentLines(lines, i) ==
    IF lines = << >> THEN Done(<< >>)
    ELSE LET line == Head(lines)
         IN  IF IsBlank(line)
             THEN LET rest == ContentLines(Tail(lines), i)
                  IN  [rest EXCEPT !.added = << Spacer(6, i) >> \o @]
             ELSE IF MarkupError(Escape(line)) THEN Raised(<< >>, Escape(line))
             ELSE LET rest == ContentLines(Tail(lines), i)
                  IN  [rest EXCEPT !.added =
                          << Flowable("Paragraph", "content", Escape(line), line, i) >> \o @]

\* The branch for documents: reading and laying out the content sits in a
\* try of its own, whose handler appends a note.
DocumentBranch(f, i) ==
    LET read == IF f.vanished \/ f.corrupt
                THEN Raised(<< >>, RelativePath(f))
                ELSE ContentLines(f.lines, i)
    IN  IF ~read.raised THEN read
        ELSE IF MarkupError(read.e) THEN Raised(read.added, read.e)
        ELSE Done(read.added \o << Paragraph("read error", read.e, i) >>)

\* The branch for images: two notes, then the picture itself in a try of its
\* own, whose handler appends a note.
ImageBranch(f, i) ==
    IF MarkupError(f.name) THEN Raised(<< >>, f.name)
    ELSE IF f.vanished THEN Raised(<< Paragraph("file note", f.name, i) >>, RelativePath(f))
    ELSE LET notes == << Paragraph("file note", f.name, i), Paragraph("size note", << >>, i) >>
         IN  IF f.corrupt
             THEN Done(notes \o << Paragraph("embed error", RelativePath(f), i) >>)
             ELSE Done(notes \o << Flowable("Image", "picture", f.name, << >>, i),
                                   Spacer(12, i) >>)

\* The branches for spreadsheets, presentations and existing PDFs: three
\* notes, the second of which needs the file's size.
InfoBranch(f, i) ==
    IF MarkupError(f.name) THEN Raised(<< >>, f.name)
    ELSE IF f.vanished THEN Raised(<< Paragraph("file note", f.name, i) >>, RelativePath(f))
    ELSE Done(<< Paragraph("file note", f.name, i), Paragraph("size note", << >>, i),
                 Paragraph("content note", << >>, i) >>)

\* The separator appended at the end of an entry's try block.
Separator(i) ==
    << Spacer(12, i), Paragraph("separator", << >>, i), Spacer(12, i) >>

\* if i % 5 == 0 and i < len(files): story.append(PageBreak())
PageBreakAfter(i, n) ==
    IF i % 5 = 0 /\ i < n THEN << Flowable("PageBreak", "break", << >>, << >>, i) >>
    ELSE << >>

\* The try block of one entry: the title, the branch of the file's
\* category, the separator and the page break.
EntryTry(f, i, n) ==
    IF ~f.inside THEN Raised(<< >>, RelativePath(f))
    ELSE IF MarkupError(RelativePath(f)) THEN Raised(<< >>, RelativePath(f))
    ELSE LET title == << Paragraph("title", RelativePath(f), i), Spacer(6, i) >>
             file_type == get_file_type(f.name)
             branch == IF file_type = "images" THEN ImageBranch(f, i)
                       ELSE IF file_type = "documents" THEN DocumentBranch(f, i)
                       ELSE IF file_type \in {"spreadsheets", "presentations", "pdf"}
                            THEN InfoBranch(f, i)
                       ELSE Done(<< >>)
         IN  IF branch.raised THEN Raised(title \o branch.added, branch.e)
             ELSE Done(title \o branch.added \o Separator(i) \o PageBreakAfter(i, n))

\* One entry of the loop: the try block, and on an exception the handler,
\* which appends a note naming the file and the exception, and a spacer.
\* The note is a Paragraph too; when it raises, the exception leaves the loop.
Entry(f, i, n) ==
    LET try == EntryTry(f, i, n)
    IN  IF ~try.raised THEN try
        ELSE IF MarkupError(f.name \o << ":", " " >> \o try.e)
        THEN Raised(try.added, f.name \o << ":", " " >> \o try.e)
        ELSE Done(try.added \o << Paragraph("error note", f.name \o << ":", " " >> \o try.e, i),
                                  Spacer(12, i) >>)

\* A file handed to the combiner: where it is, the lines of its content,
\* whether it has vanished since it was listed (stat and open raise),
\* whether the library fails on its content, and whether it lies below
\* directory_path.
CombinerFile(dir, name, lines, vanished, corrupt, inside) ==
    [dir |-> dir, name |-> name, lines |-> lines, vanished |-> vanished,
     corrupt |-> corrupt, inside |-> inside]

PlainText == CombinerFile(<< >>, <<"r",".","t","x","t">>, << <<"a">> >>, FALSE, FALSE, TRUE)

VanishedPdf == CombinerFile(<< >>, <<"r",".","p","d","f">>, << >>, TRUE, FALSE, TRUE)

\* The files a short list is drawn from: documents whose lines hold the
\* three special characters, entities and blanks, a readable and an
\* unreadable image, a document that cannot be decoded, the three
\* categories that get notes only, a file that has vanished, a name that
\* holds a tag, a file outside directory_path and an unsupported file.
CombinerPool ==
    { PlainText,
      VanishedPdf,
      CombinerFile(<< <<"x">> >>, <<"r",".","m","d">>,
                   << <<"a","<","b",">","&">>, << >>, <<"&","l","t",";">> >>,
                   FALSE, FALSE, TRUE),
      CombinerFile(<< >>, <<"r",".","d","o","c","x">>,
                   << <<"<">>, <<" ">>, <<">">>, <<"&">>, <<"&","a","m","p",";">> >>,
                   FALSE, FALSE, TRUE),
      CombinerFile(<< >>, <<"r",".","m","d">>, << >>, FALSE, TRUE, TRUE),
      CombinerFile(<< >>, <<"r","_","1",".","P","N","G">>, << >>, FALSE, FALSE, TRUE),
      CombinerFile(<< >>, <<"r",".","g","i","f">>, << >>, FALSE, TRUE, TRUE),
      CombinerFile(<< >>, <<"r",".","x","l","s","x">>, << >>, FALSE, FALSE, TRUE),
      CombinerFile(<< >>, <<"r",".","p","p","t","x">>, << >>, FALSE, FALSE, TRUE),
      CombinerFile(<< >>, <<"r",".","p","d","f">>, << >>, FALSE, FALSE, TRUE),
      CombinerFile(<< >>, <<"<","b",">",".","t","x","t">>, << <<"a">> >>, FALSE, FALSE, TRUE),
      CombinerFile(<< >>, <<"r",".","t","x","t">>, << <<"a">> >>, FALSE, FALSE, FALSE),
      CombinerFile(<< >>, <<"n",".","e","x","e">>, << >>, FALSE, FALSE, TRUE) }

\* The files a long list is drawn from.
PagePool == { PlainText, VanishedPdf }

Lists(pool, n) == UNION { [1..k -> pool] : k \in 0..n }

\* combine_files_to_single_pdf(files, output_path, directory_path) has been
\* called and has set up its document and its styles.
\* The batch walker's variables while another entry point is exercised on
\* its own.
CliIdle ==
    /\ directory_state = "ok"
    /\ output_dir_state = "exists"
    /\ maintain_structure = TRUE
    /\ combine = FALSE
    /\ directory_name = <<"s">>
    /\ tree = {}
    /\ fs = EmptyFiles
    /\ dirs = {<< >>}
    /\ all_files = << >>
    /\ types = NoTypes
    /\ processed = 0
    /\ successful_conversions = 0
    /\ failed_conversions = 0
    /\ calls = << >>
    /\ combiner_calls = << >>
    /\ gen = NoGen
    /\ ret = FALSE
    /\ exit_code = -1
    /\ interrupted = FALSE
    /\ reported = << >>
    /\ fs0 = fs
    /\ first_run = NoFirstRun
    /\ library = << >>
    /\ output_dir = "given"
    /\ WidgetIdle

cli_vars ==
    << directory_state, output_dir_state, maintain_structure, combine,
       directory_name, tree, fs, fs0, dirs, all_files, types, processed,
       successful_conversions, failed_conversions, calls, combiner_calls, gen,
       ret, exit_code, interrupted, reported, first_run, library, gui_vars,
       output_dir, widget_vars >>

InitCombiner ==
    /\ pc = "combiner"
    /\ CliIdle
    /\ GuiIdle
    /\ CanvasIdle
    /\ combine_files \in Lists(CombinerPool, MaxCombineFiles) \cup Lists(PagePool, MaxPageFiles)
    /\ story = << >>
    /\ combine_i = 0
    /\ combine_result = NoResult

\* The body of "for i, file_path in enumerate(files, 1)".  An exception that
\* leaves it is caught by the function's outer handler, which returns False.
CombineEntry ==
    /\ pc = "combiner"
    /\ combine_i < Len(combine_files)
    /\ LET i == combine_i + 1
           r == Entry(combine_files[i], i, Len(combine_files))
       IN  /\ story' = story \o r.added
           /\ combine_i' = i
           /\ IF r.raised
              THEN /\ combine_result' = [value |-> "False", built |-> FALSE]
                   /\ pc' = "combined"
              ELSE UNCHANGED << combine_result, pc >>
    /\ UNCHANGED << combine_files, canvas_vars, cli_vars >>

\* doc.build(story) and the return: True, or False from the outer handler
\* when building raises.
BuildDocument ==
    /\ pc = "combiner"
    /\ combine_i = Len(combine_files)
    /\ \E io \in {"ok", "error"} :
          combine_result' = [value |-> IF io = "ok" THEN "True" ELSE "False",
                             built |-> TRUE]
    /\ pc' = "combined"
    /\ UNCHANGED << combine_files, story, combine_i, canvas_vars, cli_vars >>

NextCombiner ==
    \/ CombineEntry
    \/ BuildDocument

SpecCombiner == InitCombiner /\ [][NextCombiner]_vars

\* ------------------------------------------------------ convert_xlsx_to_pdf

\* reportlab's A4 height in points, 297 mm = 841.89, rounded down: the
\* cursor is always this height minus a whole number, so every comparison
\* with the whole-number margin comes out as with the fraction.
A4Height == 841
\* y_position = height - 50
TopOffset == 50
\* if y_position < 50
BottomMargin == 50
\* iter_rows(max_row=50, max_col=10)
MaxRow == 50
MaxCol == 10
\* row_text[:80]
MaxLineLen == 80
\* The steps of the cursor: after the title, after a sheet's name and after
\* its rows, and after a row.
TitleStep == 30
SheetStep == 20
RowStep == 15
\* len(" | ")
SeparatorLen == 3

Min(a, b) == IF a < b THEN a ELSE b

\* A sheet: the rows and columns that hold values, and the length of the
\* text of each value.
Sheet(nrows, ncols, cell_len) == [nrows |-> nrows, ncols |-> ncols, cell_len |-> cell_len]

\* The sheets a workbook is drawn from: an empty one, a small one, one with
\* more columns than are shown and long values, and one with 60 rows.
SheetPool ==
    { Sheet(0, 0, 0), Sheet(3, 2, 4), Sheet(5, 12, 9), Sheet(60, 3, 2) }

\* The cells of row r that iter_rows hands over and that hold a value:
\* iter_rows yields rows 1..max_row and columns 1..max_col whatever the
\* sheet holds, the cells without a value as None.
ValuesInRow(s, r) == IF r <= s.nrows THEN Min(s.ncols, MaxCol) ELSE 0

\* len(row_text): the texts of the values and the separators between the
\* max_col cells.
RowTextLen(s, r) == ValuesInRow(s, r) * s.cell_len + SeparatorLen * (MaxCol - 1)

\* not row_text.strip(): nothing but blanks, which needs a single, empty cell.
RowIsBlank(s, r) == MaxCol = 1 /\ ValuesInRow(s, r) * s.cell_len = 0

\* One drawString call: what is drawn, for which sheet and row, where, on
\* which page, how long the text is, how many values it shows, and the
\* cursor before the page check.
Drawn(what, sheet, row, y, page, len, cols, y_before) ==
    [what |-> what, sheet |-> sheet, row |-> row, y |-> y, page |-> page,
     len |-> len, cols |-> cols, y_before |-> y_before]

pptx_vars == << presentation, slide_num, line_num >>

xlsx_vars == << workbook, sheet_num, row_num >>

\* The workbooks with up to n sheets, all of them alike.
SameSheets(n) == { [k \in 1..m |-> s] : m \in 1..n, s \in SheetPool }

\* load_workbook succeeded, the canvas is created and the cursor set.
InitXlsx ==
    /\ pc = "xlsx_title"
    /\ CliIdle
    /\ GuiIdle
    /\ CombinerIdle
    /\ workbook \in Lists(SheetPool, MaxSheets) \cup SameSheets(MaxSameSheets)
    /\ sheet_num = 0
    /\ row_num = 0
    /\ presentation = << >>
    /\ slide_num = 0
    /\ line_num = 0
    /\ y_position = A4Height - TopOffset
    /\ pages = 0
    /\ drawn = << >>

\* c.drawString(50, y_position, f"Excel File: ..."); y_position -= 30
DrawFileTitle ==
    /\ pc = "xlsx_title"
    /\ drawn' = Append(drawn, Drawn("title", 0, 0, y_position, pages, 0, 0, y_position))
    /\ y_position' = y_position - TitleStep
    /\ pc' = "xlsx_sheet"
    /\ UNCHANGED << workbook, sheet_num, row_num, pages, pptx_vars, combiner_vars,
                    cli_vars >>

\* The head of "for sheet_name in workbook.sheetnames": the sheet's name is
\* drawn and the cursor moved.
DrawSheetName ==
    /\ pc = "xlsx_sheet"
    /\ sheet_num < Len(workbook)
    /\ sheet_num' = sheet_num + 1
    /\ row_num' = 0
    /\ drawn' = Append(drawn,
          Drawn("sheet", sheet_num + 1, 0, y_position, pages, 0, 0, y_position))
    /\ y_position' = y_position - SheetStep
    /\ pc' = "xlsx_rows"
    /\ UNCHANGED << workbook, pages, pptx_vars, combiner_vars, cli_vars >>

\* Mutant of NewPageNeeded: the page is changed at the paper's edge.
NewPageNeededAtEdge(y) == y < 0

\* if y_position < 50
NewPageNeeded(y) == y < BottomMargin

\* The body of "for row in sheet.iter_rows(...)": the page check, then the
\* row's text, drawn unless it is blank.
DrawRow ==
    /\ pc = "xlsx_rows"
    /\ row_num < MaxRow
    /\ LET s == workbook[sheet_num]
           r == row_num + 1
           break == NewPageNeeded(y_position)
           y == IF break THEN A4Height - TopOffset ELSE y_position
       IN  /\ pages' = IF break THEN pages + 1 ELSE pages
           /\ row_num' = r
           /\ IF RowIsBlank(s, r)
              THEN /\ y_position' = y
                   /\ drawn' = drawn
              ELSE /\ y_position' = y - RowStep
                   /\ drawn' = Append(drawn,
                         Drawn("row", sheet_num, r, y, pages',
                               Min(RowTextLen(s, r), MaxLineLen),
                               ValuesInRow(s, r), y_position))
    /\ UNCHANGED << pc, workbook, sheet_num, pptx_vars, combiner_vars, cli_vars >>

\* After a sheet's rows: y_position -= 20
EndSheet ==
    /\ pc = "xlsx_rows"
    /\ row_num = MaxRow
    /\ y_position' = y_position - SheetStep
    /\ pc' = "xlsx_sheet"
    /\ UNCHANGED << workbook, sheet_num, row_num, pages, drawn, pptx_vars,
                    combiner_vars, cli_vars >>

\* c.save(); return True
SaveWorkbook ==
    /\ pc = "xlsx_sheet"
    /\ sheet_num = Len(workbook)
    /\ pc' = "xlsx_saved"
    /\ UNCHANGED << canvas_vars, combiner_vars, cli_vars >>

NextXlsx ==
    \/ DrawFileTitle
    \/ DrawSheetName
    \/ DrawRow
    \/ EndSheet
    \/ SaveWorkbook

SpecXlsx == InitXlsx /\ [][NextXlsx]_vars

\* ------------------------------------------------------ convert_pptx_to_pdf

\* y_position = height - 80
SlideTextOffset == 80
\* y_position -= 20
LineStep == 20

\* A shape: whether it has a text attribute, and the lengths of the lines
\* of its text (<< 0 >> is the empty text).
Shape(has_text, lines) == [has_text |-> has_text, lines |-> lines]

\* hasattr(shape, "text") and shape.text
BearsText(shape) == shape.has_text /\ shape.lines # << 0 >>

\* The slides a presentation is drawn from: one without shapes, one whose
\* shapes are a picture, an empty text and two texts (a long line and an
\* empty line among them), and one with more lines than a page takes.
SlidePool ==
    { << >>,
      << Shape(FALSE, << >>), Shape(TRUE, << 0 >>), Shape(TRUE, << 100, 0 >>),
         Shape(TRUE, << 7 >>) >>,
      << Shape(TRUE, << 3 >>), Shape(TRUE, [k \in 1..40 |-> 5]) >> }

\* The lines of a slide in drawing order: those of each text-bearing shape,
\* shape after shape; first is the number of the slide's first shape taken.
RECURSIVE LinesFrom(_, _)
LinesFrom(slide, first) ==
    IF first > Len(slide) THEN << >>
    ELSE (IF BearsText(slide[first])
          THEN [k \in 1..Len(slide[first].lines) |->
                  [shape |-> first, line |-> k, len |-> slide[first].lines[k]]]
          ELSE << >>)
            \o LinesFrom(slide, first + 1)

\* Mutant of SlideLines: only the first shape is drawn.
SlideLinesFirstShape(slide) ==
    IF slide = << >> THEN << >> ELSE LinesFrom(<< slide[1] >>, 1)

SlideLines(slide) == LinesFrom(slide, 1)

\* Presentation(input_path) succeeded and the canvas is created.
InitPptx ==
    /\ pc = "pptx_cover"
    /\ CliIdle
    /\ GuiIdle
    /\ CombinerIdle
    /\ workbook = << >>
    /\ sheet_num = 0
    /\ row_num = 0
    /\ presentation \in Lists(SlidePool, MaxSlides)
    /\ slide_num = 0
    /\ line_num = 0
    /\ y_position = A4Height - TopOffset
    /\ pages = 0
    /\ drawn = << >>

\* c.drawString(50, height - 50, f"PowerPoint: ...")
DrawCover ==
    /\ pc = "pptx_cover"
    /\ drawn' = Append(drawn,
          Drawn("cover", 0, 0, A4Height - TopOffset, pages, 0, 0, y_position))
    /\ pc' = "pptx_slide"
    /\ UNCHANGED << y_position, pages, pptx_vars, xlsx_vars, combiner_vars, cli_vars >>

\* The head of "for slide in presentation.slides": a new page, the slide's
\* number, and the cursor below it.
StartSlide ==
    /\ pc = "pptx_slide"
    /\ slide_num < Len(presentation)
    /\ slide_num' = slide_num + 1
    /\ line_num' = 0
    /\ pages' = pages + 1
    /\ drawn' = Append(drawn,
          Drawn("slide", slide_num + 1, 0, A4Height - TopOffset, pages', 0, 0, y_position))
    /\ y_position' = A4Height - SlideTextOffset
    /\ pc' = "pptx_lines"
    /\ UNCHANGED << presentation, xlsx_vars, combiner_vars, cli_vars >>

\* The body of "for line in text_lines", for the next line of the slide's
\* text-bearing shapes: the page check, the line, the cursor.
DrawLine ==
    /\ pc = "pptx_lines"
    /\ line_num < Len(SlideLines(presentation[slide_num]))
    /\ LET l == SlideLines(presentation[slide_num])[line_num + 1]
           break == NewPageNeeded(y_position)
           y == IF break THEN A4Height - TopOffset ELSE y_position
       IN  /\ pages' = IF break THEN pages + 1 ELSE pages
           /\ line_num' = line_num + 1
           /\ drawn' = Append(drawn,
                 Drawn("line", slide_num, l.line, y, pages',
                       Min(l.len, MaxLineLen), l.shape, y_position))
           /\ y_position' = y - LineStep
    /\ UNCHANGED << pc, presentation, slide_num, xlsx_vars, combiner_vars, cli_vars >>

\* The slide's shapes are done: slide_num += 1 and on to the next slide.
EndSlide ==
    /\ pc = "pptx_lines"
    /\ line_num = Len(SlideLines(presentation[slide_num]))
    /\ pc' = "pptx_slide"
    /\ UNCHANGED << canvas_vars, combiner_vars, cli_vars >>

\* c.save(), which ends the page in progress; return True
SavePresentation ==
    /\ pc = "pptx_slide"
    /\ slide_num = Len(presentation)
    /\ pc' = "pptx_saved"
    /\ UNCHANGED << canvas_vars, combiner_vars, cli_vars >>

NextPptx ==
    \/ DrawCover
    \/ StartSlide
    \/ DrawLine
    \/ EndSlide
    \/ SavePresentation

SpecPptx == InitPptx /\ [][NextPptx]_vars

\* -------------------------------------------- the GUI (pdf_converter.py)

\* A worker thread: where it is in convert_files, the number of files its
\* walk found, the loop's index, its two counters, and the way its batch
\* went ("" while that is open).
Thread(at, n, i, success_count, fail_count, path) ==
    [pc |-> at, n |-> n, i |-> i, success_count |-> success_count,
     fail_count |-> fail_count, path |-> path]

NotStarted == Thread("idle", 0, 0, 0, 0, "")

Workers == 1..MaxBatches

\* The worker threads that have been started and have not ended.
Alive == {w \in DOMAIN threads : threads[w].pc \notin {"idle", "done"}}

\* The window is up, a folder may or may not be selected, no batch has run.
InitGui ==
    /\ pc = "mainloop"
    /\ CliIdle
    /\ CombinerIdle
    /\ CanvasIdle
    /\ convert_button = "normal"
    /\ threads = [w \in Workers |-> NotStarted]

gui_frame == << pc, directory_state, output_dir_state, maintain_structure, combine,
                directory_name, tree, fs, fs0, dirs, all_files, types, processed,
                successful_conversions, failed_conversions, calls, combiner_calls,
                gen, ret, exit_code, interrupted, reported, first_run, library,
                combiner_vars, canvas_vars, output_dir, widget_vars >>

\* start_conversion, the convert button's command (Tk does not invoke the
\* command of a disabled button): without a selected, existing folder it
\* shows an error and returns; else it disables the button and starts a
\* worker thread on convert_files.
StartConversion ==
    /\ convert_button = "normal"
    /\ \E selected \in {"none", "missing", "ok"} :
          IF selected # "ok"
          THEN UNCHANGED << convert_button, threads >>
          ELSE /\ \E w \in Workers :
                     /\ threads[w].pc = "idle"
                     /\ \A v \in Workers : v < w => threads[v].pc # "idle"
                     /\ threads' = [threads EXCEPT ![w].pc = "begin"]
               /\ convert_button' = "disabled"
    /\ UNCHANGED gui_frame

\* convert_files up to the walk: the output directory is created (mkdir may
\* raise) and two lines are logged.
WorkerBegin(w) ==
    /\ threads[w].pc = "begin"
    /\ \E raises \in BOOLEAN :
          threads' = [threads EXCEPT ![w].pc = IF raises THEN "except" ELSE "walk"]
    /\ UNCHANGED << convert_button, gui_frame >>

\* The walk and what follows it.  Without files: a log line, the button is
\* set to normal (line 460) and the method returns, its finally clause
\* still to run.  Else the combine option is read.
WorkerWalk(w) ==
    /\ threads[w].pc = "walk"
    /\ \E n \in 0..MaxGuiFiles, combine_files_get \in BOOLEAN :
          IF n = 0
          THEN /\ threads' = [threads EXCEPT ![w].pc = "finally", ![w].path = "no files"]
               /\ convert_button' = "normal"
          ELSE /\ threads' = [threads EXCEPT
                     ![w].pc = IF combine_files_get THEN "combine" ELSE "loop",
                     ![w].n = n]
               /\ UNCHANGED convert_button
    /\ UNCHANGED gui_frame

\* Combine mode: the combiner is imported (which may raise) and called; its
\* result is logged and shown in a message box, which blocks the worker.
WorkerCombine(w) ==
    /\ threads[w].pc = "combine"
    /\ \E result \in {"True", "False", "raise"} :
          threads' = [threads EXCEPT
             ![w].pc = IF result = "raise" THEN "except" ELSE "combine dialog",
             ![w].path = IF result = "True" THEN "combined"
                         ELSE IF result = "False" THEN "combine failed" ELSE @]
    /\ UNCHANGED << convert_button, gui_frame >>

\* One iteration of the per-file loop: the conversion counts as a success
\* or as a failure; an exception is caught inside the loop.  (SpecGuiFiles
\* follows the iteration's files, destinations and progress bar, SpecLog
\* the widget calls of its log_message.)
WorkerConvert(w) ==
    /\ threads[w].pc = "loop"
    /\ threads[w].i < threads[w].n
    /\ \E result \in {"True", "False", "raise"} :
          threads' = [threads EXCEPT
             ![w].i = @ + 1,
             ![w].success_count = IF result = "True" THEN @ + 1 ELSE @,
             ![w].fail_count = IF result = "True" THEN @ ELSE @ + 1]
    /\ UNCHANGED << convert_button, gui_frame >>

\* After the loop: the summary is logged and shown in a message box; a
\* widget call that raises goes to the method's handler.
WorkerSummary(w) ==
    /\ threads[w].pc = "loop"
    /\ threads[w].i = threads[w].n
    /\ \E raises \in BOOLEAN :
          threads' = [threads EXCEPT
             ![w].pc = IF raises THEN "except" ELSE "summary dialog",
             ![w].path = IF raises THEN @ ELSE "complete"]
    /\ UNCHANGED << convert_button, gui_frame >>

\* except Exception: the error is logged and shown in a message box.
WorkerExcept(w) ==
    /\ threads[w].pc = "except"
    /\ threads' = [threads EXCEPT ![w].pc = "error dialog", ![w].path = "exception"]
    /\ UNCHANGED << convert_button, gui_frame >>

\* The user closes the worker's message box and the worker goes on: after
\* the combine dialog the button is set to normal (line 485) and the method
\* returns; after the other two the try statement is left.
DismissDialog(w) ==
    /\ threads[w].pc \in {"combine dialog", "summary dialog", "error dialog"}
    /\ threads' = [threads EXCEPT ![w].pc = "finally"]
    /\ convert_button' = IF threads[w].pc = "combine dialog" THEN "normal"
                         ELSE convert_button
    /\ UNCHANGED gui_frame

\* Mutant of ButtonAfterFinally: the button is left as it is.
ButtonAfterFinallyKept == convert_button

\* finally: self.convert_button.config(state='normal', ...)
ButtonAfterFinally == "normal"

\* The finally clause, after which the thread ends.
WorkerFinally(w) ==
    /\ threads[w].pc = "finally"
    /\ convert_button' = ButtonAfterFinally
    /\ threads' = [threads EXCEPT ![w].pc = "done"]
    /\ UNCHANGED gui_frame

WorkerStep(w) ==
    \/ WorkerBegin(w)
    \/ WorkerWalk(w)
    \/ WorkerCombine(w)
    \/ WorkerConvert(w)
    \/ WorkerSummary(w)
    \/ WorkerExcept(w)
    \/ WorkerFinally(w)

NextGui ==
    \/ StartConversion
    \/ \E w \in Workers : WorkerStep(w)
    \/ \E w \in Workers : DismissDialog(w)

SpecGui == InitGui /\ [][NextGui]_vars

\* The scheduler lets every started thread run, and the user closes every
\* message box.
SpecGuiLive ==
    /\ SpecGui
    /\ \A w \in Workers : WF_vars(WorkerStep(w))
    /\ \A w \in Workers : WF_vars(DismissDialog(w))

\* ------------------------------- the GUI's per-file batch, file by file

\* One batch of the GUI followed through its files: worker 1 has been
\* started on a folder (the button is disabled), the combine option is off,
\* and the output directory, always <directory>/pdf, exists already.
GuiTrees == {t \in SUBSET Pool : Cardinality(t) <= MaxGuiFiles}

InitGuiFiles ==
    /\ pc = "mainloop"
    /\ output_dir = "default"
    /\ directory_state = "ok"
    /\ output_dir_state = "exists"
    /\ maintain_structure \in BOOLEAN
    /\ combine = FALSE
    /\ directory_name = <<"s">>
    /\ tree \in GuiTrees
    /\ \E prev \in PreviousOutputs : fs = prev.files /\ dirs = prev.dirs
    /\ fs0 = fs
    /\ all_files = << >>
    /\ types = NoTypes
    /\ processed = 0
    /\ successful_conversions = 0
    /\ failed_conversions = 0
    /\ calls = << >>
    /\ combiner_calls = << >>
    /\ gen = NoGen
    /\ ret = FALSE
    /\ exit_code = -1
    /\ interrupted = FALSE
    /\ reported = << >>
    /\ first_run = NoFirstRun
    /\ library = << >>
    /\ CombinerIdle
    /\ CanvasIdle
    /\ WidgetIdle
    /\ convert_button = "disabled"
    /\ threads = [w \in Workers |->
                    IF w = 1 THEN Thread("begin", 0, 0, 0, 0, "") ELSE NotStarted]

\* What the file-level actions of the GUI leave alone.
gui_files_frame ==
    << pc, directory_state, output_dir_state, maintain_structure, combine,
       directory_name, tree, fs0, processed, successful_conversions,
       failed_conversions, combiner_calls, gen, ret, exit_code, interrupted,
       reported, first_run, library, combiner_vars, canvas_vars, output_dir,
       results_text, log_call, log_messages >>

\* Lines 450-491 on the files: the walk of the selected folder, which holds
\* the output directory; without files the button is set to normal and the
\* method returns; else the combine option is read and, for a per-file
\* batch, the progress bar's maximum is set.
GuiWalk ==
    /\ threads[1].pc = "walk"
    /\ \E order \in WalkOrders(Walked(fs)) :
          /\ all_files' = SupportedOf(order)
          /\ types' = [n \in {f.name : f \in Walked(fs)} |-> get_file_type(n)]
    /\ IF all_files' = << >>
       THEN /\ threads' = [threads EXCEPT ![1].pc = "finally", ![1].path = "no files"]
            /\ convert_button' = "normal"
            /\ UNCHANGED progress_bar
       ELSE IF combine
       THEN /\ threads' = [threads EXCEPT ![1].pc = "combine", ![1].n = Len(all_files')]
            /\ UNCHANGED << convert_button, progress_bar >>
       ELSE /\ threads' = [threads EXCEPT ![1].pc = "loop", ![1].n = Len(all_files')]
            /\ progress_bar' = [progress_bar EXCEPT !.maximum = Len(all_files')]
            /\ UNCHANGED convert_button
    /\ UNCHANGED << gui_files_frame, fs, dirs, calls >>

\* Lines 506-510: output_path = pdf_output_dir / f"{base_name}.pdf"
GuiFlatDest(f) == << FlatBaseName(f) \o PdfExtension >>

\* The progress bar after iteration i (from 0) of the loop: line 521 is
\* reached when convert_file returned, not when the iteration raised.
ProgressAfter(result, i) ==
    IF result = "path error" THEN progress_bar
    ELSE [progress_bar EXCEPT !.value = i + 1]

\* success_count / fail_count after an iteration.
GuiCount(result) ==
    threads' = [threads EXCEPT
       ![1].i = @ + 1,
       ![1].success_count = IF result = "True" THEN @ + 1 ELSE @,
       ![1].fail_count = IF result = "True" THEN @ ELSE @ + 1]

\* Lines 496-526 on the files: the destination is computed (a failing
\* mkdir raises into the handler of line 524), convert_file is called, its
\* result counted and the progress bar moved.
GuiConvert ==
    /\ threads[1].pc = "loop"
    /\ threads[1].i < threads[1].n
    /\ LET f == all_files[threads[1].i + 1]
           i == threads[1].i
       IN  IF maintain_structure /\ MkdirRaises(fs, f.dir)
           THEN /\ GuiCount("path error")
                /\ progress_bar' = ProgressAfter("path error", i)
                /\ calls' = Append(calls,
                      Attempt(f, << >>, "mirror", "none", "none", "path error", FALSE))
                /\ UNCHANGED << fs, dirs >>
           ELSE LET dest == IF maintain_structure THEN MirrorDest(f) ELSE GuiFlatDest(f)
                    mode == IF maintain_structure THEN "mirror" ELSE "flat"
                IN  /\ dirs' = IF maintain_structure THEN MkdirParents(dirs, f.dir)
                                ELSE dirs
                    /\ \E io \in PossibleIo(dirs', dest) :
                          /\ ConvertFileCall(f, dest, mode, io, dirs')
                          /\ GuiCount(convert_file(f.name, io))
                          /\ progress_bar' = ProgressAfter(convert_file(f.name, io), i)
    /\ UNCHANGED << gui_files_frame, all_files, types, convert_button >>

NextGuiFiles ==
    \/ WorkerBegin(1)
    \/ GuiWalk
    \/ GuiConvert
    \/ WorkerSummary(1)
    \/ WorkerExcept(1)
    \/ DismissDialog(1)
    \/ WorkerFinally(1)

SpecGuiFiles == InitGuiFiles /\ [][NextGuiFiles]_vars

\* ------------------------------------------------- the GUI's log_message

\* A batch is running and its worker logs, while callbacks of the interface
\* thread (_post_selection_tasks, preview_files) log too.  Tk runs every
\* widget call in the interface thread: a call made by the worker waits
\* until the event loop takes it, so each of the worker's widget calls is
\* one step, and a callback of the interface thread, which does not enter
\* the event loop inside log_message, runs its log_message as a whole
\* between two of them.
InitLog ==
    /\ pc = "mainloop"
    /\ CliIdle
    /\ CombinerIdle
    /\ CanvasIdle
    /\ convert_button = "disabled"
    /\ threads = [w \in Workers |->
                    IF w = 1 THEN Thread("begin", 0, 0, 0, 0, "") ELSE NotStarted]

log_frame ==
    << pc, directory_state, output_dir_state, maintain_structure, combine,
       directory_name, tree, fs, fs0, dirs, all_files, types, processed,
       successful_conversions, failed_conversions, calls, combiner_calls, gen,
       ret, exit_code, interrupted, reported, first_run, library, combiner_vars,
       canvas_vars, gui_vars, output_dir, progress_bar >>

\* The messages a thread has passed to log_message so far.
PassedBy(by) == {k \in 1..Len(log_messages) : log_messages[k].by = by}

\* Text.insert(END, ...): a Text widget whose state is disabled ignores it.
Insert(text, message) ==
    IF text.state = "normal"
    THEN [text EXCEPT !.lines = Append(@, message)]
    ELSE text

\* The worker enters log_message: results_text.config(state=NORMAL)
LogEnable ==
    /\ log_call.at = "idle"
    /\ Cardinality(PassedBy("worker")) < MaxLogCalls
    /\ LET m == Message("worker", Cardinality(PassedBy("worker")) + 1)
       IN  /\ log_messages' = Append(log_messages, m)
           /\ log_call' = [at |-> "insert", message |-> m]
    /\ results_text' = [results_text EXCEPT !.state = "normal"]
    /\ UNCHANGED log_frame

\* The worker's results_text.insert(END, ...) and see(END)
LogInsert ==
    /\ log_call.at = "insert"
    /\ results_text' = Insert(results_text, log_call.message)
    /\ log_call' = [log_call EXCEPT !.at = "disable"]
    /\ UNCHANGED << log_frame, log_messages >>

\* The worker's results_text.config(state=DISABLED); log_message returns.
LogDisable ==
    /\ log_call.at = "disable"
    /\ results_text' = [results_text EXCEPT !.state = "disabled"]
    /\ log_call' = NoLogCall
    /\ UNCHANGED << log_frame, log_messages >>

\* log_message called in a callback of the interface thread: its three
\* widget calls in one go.
InterfaceLog ==
    /\ Cardinality(PassedBy("interface")) < MaxLogCalls
    /\ LET m == Message("interface", Cardinality(PassedBy("interface")) + 1)
       IN  /\ log_messages' = Append(log_messages, m)
           /\ results_text' =
                 [Insert([results_text EXCEPT !.state = "normal"], m)
                     EXCEPT !.state = "disabled"]
    /\ UNCHANGED << log_frame, log_call >>

NextLog ==
    \/ LogEnable
    \/ LogInsert
    \/ LogDisable
    \/ InterfaceLog

SpecLog == InitLog /\ [][NextLog]_vars

\* ---------------------------------------------------------------- properties

\* The extension table says the suffix of name is supported.
IsSupportedName(name) ==
    \E i \in 1..Len(supported_formats) :
       LowerStr(Suffix(name)) \in supported_formats[i].extensions

\* The components of a relative directory joined by underscores.
RECURSIVE UnderscoreJoin(_)
UnderscoreJoin(comps) ==
    IF Len(comps) = 1 THEN comps[1]
    ELSE comps[1] \o << "_" >> \o UnderscoreJoin(Tail(comps))

\* name is stem ++ extension, the extension starting at name's last dot.
SplitsAt(name, k) ==
    /\ k \in 1..(Len(name) - 2)
    /\ name[k + 1] = "."
    /\ \A m \in (k + 2)..Len(name) : name[m] # "."

\* C1: in mirror mode, whenever the renderer is invoked on the input at
\* relative path d/s.ext, its destination is <output>/d/s.pdf (same
\* directory components, the stem kept, the suffix replaced by .pdf), and
\* the directory <output>/d and all its ancestors exist at that moment.
C1_MirrorDestination ==
    \A i \in 1..Len(calls) :
       (calls[i].mode = "mirror" /\ calls[i].renderer # "none") =>
          LET c == calls[i]
              d == c.src.dir
          IN  /\ Len(c.dest) = Len(d) + 1
              /\ SubSeq(c.dest, 1, Len(d)) = d
              /\ \E k \in 1..Len(c.src.name) :
                    /\ SplitsAt(c.src.name, k)
                    /\ c.dest[Len(c.dest)] = SubSeq(c.src.name, 1, k) \o PdfExtension
              /\ c.dir_ready
              /\ \A n \in 0..Len(d) : SubSeq(d, 1, n) \in dirs

\* C1 witness: x/y/r.md was converted to <output>/x/y/r.pdf.
C1_Witness ==
    \E i \in 1..Len(calls) :
       /\ calls[i].mode = "mirror"
       /\ calls[i].src = File(<< <<"x">>, <<"y">> >>, <<"r",".","m","d">>)
       /\ calls[i].dest = << <<"x">>, <<"y">>, <<"r",".","p","d","f">> >>
       /\ calls[i].outcome = "True"
       /\ calls[i].dest \in DOMAIN fs
       /\ << <<"x">>, <<"y">> >> \in dirs

\* C2: in flatten mode no two inputs of one run whose conversion succeeds
\* have the same destination, every destination is a single name in the
\* output directory, and the name of a file from a subdirectory starts with
\* <directory components joined by underscores>_<stem>.
C2_FlattenNoCollision ==
    /\ \A i, j \in 1..Len(calls) :
          (/\ i < j
           /\ calls[i].mode = "flat" /\ calls[j].mode = "flat"
           /\ calls[i].outcome = "True" /\ calls[j].outcome = "True")
             => calls[i].dest # calls[j].dest
    /\ \A i \in 1..Len(calls) :
          calls[i].mode = "flat" =>
             /\ Len(calls[i].dest) = 1
             /\ calls[i].src.dir # << >> =>
                   IsPrefix(UnderscoreJoin(calls[i].src.dir) \o << "_" >>
                               \o Stem(calls[i].src.name),
                            calls[i].dest[1])

\* C2 witness: two inputs with the same flattened base name (x/r.txt and the
\* root's x_r.txt, or r.txt and r.md) were both converted, to two names.
C2_Witness ==
    \E i, j \in 1..Len(calls) :
       /\ i < j
       /\ calls[i].mode = "flat" /\ calls[j].mode = "flat"
       /\ calls[i].outcome = "True" /\ calls[j].outcome = "True"
       /\ calls[j].src.dir # << >>
       /\ FlatBaseName(calls[i].src) = FlatBaseName(calls[j].src)
       /\ calls[i].dest # calls[j].dest

\* The k-th candidate of the flatten policy: base.pdf, base_1.pdf, ...
Candidate(base_name, k) ==
    IF k = 0 THEN << base_name \o PdfExtension >>
    ELSE << base_name \o << "_", DigitChars[k + 1] >> \o PdfExtension >>

\* C3: generate_unique_filename returns base.pdf when that does not exist,
\* otherwise base_k.pdf for the smallest k >= 1 that does not exist; the
\* returned path does not exist when it is returned; and a flatten run
\* leaves every file a previous run left in the output directory as it was.
C3_UniqueFilename ==
    /\ gen.called =>
          /\ gen.path \notin gen.existing
          /\ \E k \in 0..Cardinality(gen.existing) :
                /\ gen.path = Candidate(gen.base_name, k)
                /\ \A j \in 0..(k - 1) : Candidate(gen.base_name, j) \in gen.existing
    /\ (~maintain_structure /\ ~combine) =>
          \A p \in DOMAIN fs0 : p \in DOMAIN fs /\ fs[p] = fs0[p]

\* C3 witness: the output directory held r.pdf, the flatten run wrote r_1.pdf
\* and r.pdf is still the previous run's.
C3_Witness ==
    /\ gen.called
    /\ gen.base_name = <<"r">>
    /\ << <<"r",".","p","d","f">> >> \in DOMAIN fs0
    /\ gen.path = << <<"r","_","1",".","p","d","f">> >>
    /\ gen.path \in DOMAIN fs
    /\ fs[gen.path].origin = "this run"
    /\ fs[<< <<"r",".","p","d","f">> >>] = OldContent

\* C4: outside combine mode the loop attempts the files of all_files one by
\* one in order, each once; every attempt that does not return True (a
\* failed conversion, or an exception while the destination is computed)
\* adds one to the failure counter; and convert_directory returns from the
\* loop only after the last file was attempted.
C4_EveryFileAttempted ==
    ~combine =>
       /\ Len(calls) = processed
       /\ processed <= Len(all_files)
       /\ \A i \in 1..Len(calls) : calls[i].src = all_files[i]
       /\ failed_conversions =
             Cardinality({i \in 1..Len(calls) : calls[i].outcome # "True"})
       /\ (pc = "returned" /\ all_files # << >>) => processed = Len(all_files)

\* C4 witness: the first file failed, the second was converted, the third
\* raised while its directory was created, and the run reached its summary.
C4_Witness ==
    /\ pc = "returned"
    /\ Len(calls) = 3
    /\ calls[1].outcome = "False"
    /\ calls[2].outcome = "True"
    /\ calls[3].outcome = "path error"
    /\ failed_conversions = 2

\* C5: in the per-file loop the two counters add up to the number of files
\* processed, neither decreases, every processed file adds one to exactly
\* one of them, and at the end their sum is the number of supported files
\* of the tree (unsupported files are counted in neither).
C5_CountersAccountForFiles ==
    /\ [](~combine =>
            /\ successful_conversions + failed_conversions = processed
            /\ (pc = "returned" /\ all_files # << >>) =>
                  successful_conversions + failed_conversions =
                     Cardinality({f \in tree : IsSupportedName(f.name)}))
    /\ [][/\ successful_conversions' >= successful_conversions
          /\ failed_conversions' >= failed_conversions
          /\ processed' # processed =>
                /\ processed' = processed + 1
                /\ \/ /\ successful_conversions' = successful_conversions + 1
                      /\ failed_conversions' = failed_conversions
                   \/ /\ successful_conversions' = successful_conversions
                      /\ failed_conversions' = failed_conversions + 1]_vars

\* C5 witness: a tree of two supported files and one unsupported file, both
\* supported files converted: 2 successes, 0 failures.
C5_Witness ==
    /\ pc = "returned"
    /\ ~combine
    /\ Cardinality(tree) = 3
    /\ File(<< >>, <<"n",".","e","x","e">>) \in tree
    /\ successful_conversions = 2
    /\ failed_conversions = 0

\* C6: a direct call of convert_file ends with True or False and never with
\* an exception; a renderer whose library work fails gives False; an input
\* with an unsupported extension gives False, no renderer is invoked for it
\* and no output file comes from it.
C6_ConvertFileTotal ==
    /\ \A i \in 1..Len(calls) :
          calls[i].mode = "api" =>
             /\ calls[i].outcome \in {"True", "False"}
             /\ calls[i].io # "ok" => calls[i].outcome = "False"
             /\ ~IsSupportedName(calls[i].src.name) =>
                   calls[i].outcome = "False" /\ calls[i].renderer = "none"
    /\ pc = "api" => \A p \in DOMAIN fs : IsSupportedName(fs[p].src.name)

\* C6 witness: one call with an unsupported input and one whose copy failed,
\* both False, and nothing was written.
C6_Witness ==
    /\ pc = "api"
    /\ \E i, j \in 1..Len(calls) :
          /\ ~IsSupportedName(calls[i].src.name)
          /\ calls[i].dest = << <<"o",".","p","d","f">> >>
          /\ calls[i].outcome = "False"
          /\ calls[j].renderer = "copy2"
          /\ calls[j].io = "error"
          /\ calls[j].outcome = "False"
    /\ fs = EmptyFiles

\* C7: no extension is in two categories, and get_file_type answers with the
\* category whose list holds the lower-cased suffix of the name (the part
\* from its last dot, that dot being neither its first nor its last
\* character), and with None when there is no such category.
C7_Classification ==
    /\ \A i, j \in 1..Len(supported_formats) :
          i # j => supported_formats[i].extensions
                      \cap supported_formats[j].extensions = {}
    /\ \A n \in DOMAIN types :
          LET cats == {i \in 1..Len(supported_formats) :
                          \E k \in 1..Len(n) :
                             /\ SplitsAt(n, k)
                             /\ LowerStr(SubSeq(n, k + 1, Len(n)))
                                   \in supported_formats[i].extensions}
          IN  IF cats = {} THEN types[n] = None
              ELSE \A i \in cats : types[n] = supported_formats[i].category

\* C7 witness: r_1.PNG was classified as an image.
C7_Witness ==
    /\ pc = "api"
    /\ <<"r","_","1",".","P","N","G">> \in DOMAIN types
    /\ types[<<"r","_","1",".","P","N","G">>] = "images"

\* C8: with combine set, whatever maintain_structure is, the combiner is
\* invoked at most once, on the whole list of supported files and with
\* destination <output>/<directory name>_combined.pdf, no per-file
\* destination is computed and no renderer is invoked, and
\* convert_directory returns the combiner's result.
C8_CombineMode ==
    /\ combine =>
          /\ calls = << >>
          /\ gen = NoGen
          /\ processed = 0
          /\ Len(combiner_calls) <= 1
          /\ \A i \in 1..Len(combiner_calls) :
                /\ combiner_calls[i].files = all_files
                /\ {all_files[n] : n \in 1..Len(all_files)} =
                      {f \in tree : IsSupportedName(f.name)}
                /\ combiner_calls[i].dest =
                      << directory_name
                            \o <<"_","c","o","m","b","i","n","e","d",".","p","d","f">> >>
          /\ (pc = "returned" /\ all_files # << >>) =>
                /\ Len(combiner_calls) = 1
                /\ ret = combiner_calls[1].result
    /\ ~combine => combiner_calls = << >>

\* C8 witness: --flat --combine on three supported files returned True after
\* one combiner call.
C8_Witness ==
    /\ combine
    /\ ~maintain_structure
    /\ pc = "returned"
    /\ ret
    /\ Len(combiner_calls) = 1
    /\ Len(combiner_calls[1].files) = 3
    /\ combiner_calls[1].dest \in DOMAIN fs

\* C9: when the tree holds no supported file, convert_directory returns
\* False without invoking the combiner or a renderer, and the output files
\* are those the run started with.
C9_EmptyListReturnsFalse ==
    (\A f \in tree : ~IsSupportedName(f.name)) =>
       /\ calls = << >>
       /\ combiner_calls = << >>
       /\ fs = fs0
       /\ pc \notin {"combine", "loop"}
       /\ pc = "returned" => ~ret
       /\ pc = "exited" => exit_code = 1

\* C9 witness: combine mode on a tree holding only n.exe returned False
\* after the walk.
C9_Witness ==
    /\ combine
    /\ tree = {File(<< >>, <<"n",".","e","x","e">>)}
    /\ DOMAIN types # {}
    /\ pc = "returned"
    /\ ~ret

\* The batch had a successful conversion or a successful combine.
SuccessfulBatch ==
    \/ successful_conversions > 0
    \/ \E i \in 1..Len(combiner_calls) : combiner_calls[i].result

\* C10 as stated: the exit code is 0 exactly when the batch had at least
\* one successful conversion or a successful combine.
C10_Original ==
    pc = "exited" => (exit_code = 0 <=> SuccessfulBatch)

\* C10 amended: the exit code is 0 exactly when the batch had a successful
\* conversion or combine and was not interrupted; otherwise it is 1, in
\* particular for an invalid source path.
C10_ExitCode ==
    /\ pc = "exited" =>
          /\ exit_code \in {0, 1}
          /\ exit_code = 0 <=> (SuccessfulBatch /\ ~interrupted)
          /\ directory_state # "ok" => exit_code = 1
    /\ pc # "exited" => exit_code = -1

\* C10 witness: a run interrupted after a successful conversion exited
\* with 1.
C10_Witness ==
    /\ pc = "exited"
    /\ interrupted
    /\ successful_conversions > 0
    /\ exit_code = 1

\* C11: when the source path is missing or no directory, convert_directory
\* prints one error line and returns False; the output directory is not
\* created, no file is enumerated or classified, no conversion or combine is
\* attempted, and no output file appears.
C11_InvalidSourceRejected ==
    directory_state # "ok" =>
       /\ dirs = {}
       /\ fs = fs0
       /\ output_dir_state = "absent"
       /\ all_files = << >>
       /\ types = NoTypes
       /\ calls = << >>
       /\ combiner_calls = << >>
       /\ pc \in {"main", "returned", "exited"}
       /\ Len(reported) <= 1
       /\ pc = "returned" =>
             /\ ~ret
             /\ reported = << SourceError(directory_state) >>

\* C11 witness: a source path that is a file was rejected with one error
\* line and nothing was created.
C11_Witness ==
    /\ directory_state = "notdir"
    /\ pc = "returned"
    /\ ~ret
    /\ reported = << "is not a directory" >>
    /\ dirs = {}

\* C12: when a mirror batch is run twice on the same tree, the output
\* directory being cleared in between, the set of output file names after
\* the second run is the set after the first.
C12_MirrorIdempotent ==
    (first_run.done /\ pc = "returned") => DOMAIN fs = first_run.names

\* C12 witness: the second run walked the files in another order than the
\* first and ended with the same two output names.
C12_Witness ==
    /\ first_run.done
    /\ pc = "returned"
    /\ all_files # first_run.all_files
    /\ Cardinality(first_run.names) = 2
    /\ DOMAIN fs = first_run.names

\* Entry i of the list has this kind of flowable in the story.
HasFlowable(i, role) ==
    \E k \in 1..Len(story) : story[k].entry = i /\ story[k].role = role

\* C13 as stated: an exception in one entry is replaced by an error note,
\* the remaining entries are still processed, and the function returns only
\* after building the document: False when building failed, else True.
C13_Original ==
    pc = "combined" =>
       /\ combine_i = Len(combine_files)
       /\ combine_result.built
       /\ \A i \in 1..Len(combine_files) :
             EntryTry(combine_files[i], i, Len(combine_files)).raised
                => HasFlowable(i, "error note")

\* C14 as stated: once the loop is over, a page break follows entry i
\* exactly when i is a multiple of 5 and not the last entry, so a list of n
\* entries has (n - 1) \div 5 of them, and the story does not end with one.
C14_Original ==
    (pc = "combiner" /\ combine_i = Len(combine_files) /\ combine_files # << >>) =>
       /\ \A i \in 1..Len(combine_files) :
             HasFlowable(i, "break") <=> (i % 5 = 0 /\ i < Len(combine_files))
       /\ Cardinality({k \in 1..Len(story) : story[k].kind = "PageBreak"})
             = (Len(combine_files) - 1) \div 5
       /\ story[Len(story)].kind # "PageBreak"

\* The character an entity at the head of a text stands for, with the
\* entity's length.
HeadEntity(t) ==
    IF Len(t) >= 5 /\ SubSeq(t, 1, 5) = AmpEntity THEN [char |-> "&", len |-> 5]
    ELSE IF Len(t) >= 4 /\ SubSeq(t, 1, 4) = LtEntity THEN [char |-> "<", len |-> 4]
    ELSE IF Len(t) >= 4 /\ SubSeq(t, 1, 4) = GtEntity THEN [char |-> ">", len |-> 4]
    ELSE [char |-> Head(t), len |-> 1]

\* The text a layout engine shows for an escaped text: every entity read
\* once, from the left.
RECURSIVE Unescape(_)
Unescape(t) ==
    IF t = << >> THEN << >>
    ELSE << HeadEntity(t).char >>
            \o Unescape(SubSeq(t, HeadEntity(t).len + 1, Len(t)))

ContentParagraphs == {k \in 1..Len(story) : story[k].role = "content"}

\* C15: every paragraph made from a line of document content holds no raw
\* "<" or ">", each of its "&" begins &amp;, &lt; or &gt;, reading its
\* entities once gives back the line (nothing is escaped twice), and two
\* paragraphs with the same text come from the same line.
C15_ContentEscaped ==
    /\ \A k \in ContentParagraphs :
          LET t == story[k].text
          IN  /\ \A m \in 1..Len(t) :
                    /\ t[m] \notin {"<", ">"}
                    /\ t[m] = "&" => HeadEntity(SubSeq(t, m, Len(t))).len > 1
              /\ Unescape(t) = story[k].raw
    /\ \A k, m \in ContentParagraphs :
          story[k].text = story[m].text => story[k].raw = story[m].raw

\* C15 witness: the lines "a<b>&" and "&lt;" of one document are in the
\* story as "a&lt;b&gt;&amp;" and "&amp;lt;".
C15_Witness ==
    \E k, m \in ContentParagraphs :
       /\ story[k].raw = <<"a","<","b",">","&">>
       /\ story[k].text = <<"a","&","l","t",";","b","&","g","t",";","&","a","m","p",";">>
       /\ story[m].raw = <<"&","l","t",";">>
       /\ story[m].text = <<"&","a","m","p",";","l","t",";">>

\* C17 as stated: every entry the loop has gone through, whatever its
\* category and whether or not it raised, has the separator after it.
C17_Original ==
    \A i \in 1..combine_i :
       (pc = "combiner" \/ combine_result.built \/ i < combine_i)
          => HasFlowable(i, "separator")

RowsDrawn(sheet) == {k \in 1..Len(drawn) : drawn[k].what = "row" /\ drawn[k].sheet = sheet}

\* C16: of every sheet at most 50 rows are drawn, each as one line of at
\* most 80 characters showing at most 10 values; a new page is started
\* before a row exactly when the cursor is below 50, so no row is drawn
\* below 50, and a row follows the one before it on its page 15 lower, the
\* first row of a new page being at the page height minus 50; and a
\* workbook of two sheets one of which holds 60 rows ends with exactly 50
\* rows of that sheet drawn, all holding values, and at least one new page.
C16_XlsxPagination ==
    /\ \A k \in 1..Len(drawn) :
          drawn[k].what = "row" =>
             /\ drawn[k].row <= MaxRow
             /\ drawn[k].cols <= MaxCol
             /\ drawn[k].len <= MaxLineLen
             /\ drawn[k].y >= BottomMargin
             /\ IF drawn[k].y_before < BottomMargin
                THEN /\ drawn[k].y = A4Height - TopOffset
                     /\ drawn[k].page = drawn[k - 1].page + 1
                ELSE /\ drawn[k].y = drawn[k].y_before
                     /\ drawn[k].page = drawn[k - 1].page
             /\ (drawn[k - 1].what = "row" /\ drawn[k - 1].page = drawn[k].page)
                   => drawn[k].y = drawn[k - 1].y - RowStep
    /\ \A n \in 1..Len(workbook) : Cardinality(RowsDrawn(n)) <= MaxRow
    /\ (pc = "xlsx_saved" /\ Len(workbook) = 2) =>
          \A n \in 1..2 :
             workbook[n].nrows = 60 =>
                /\ Cardinality(RowsDrawn(n)) = MaxRow
                /\ \A k \in RowsDrawn(n) : drawn[k].cols > 0
                /\ pages >= 1

\* C16 witness: the second of two sheets holds 60 rows; 50 of them were
\* drawn, the last one on a later page than the sheet's name.
C16_Witness ==
    /\ pc = "xlsx_saved"
    /\ Len(workbook) = 2
    /\ workbook[1].nrows = 3
    /\ workbook[2].nrows = 60
    /\ Cardinality(RowsDrawn(2)) = 50
    /\ pages >= 1
    /\ drawn[Len(drawn)].row = 50

LinesDrawn(slide) == {k \in 1..Len(drawn) : drawn[k].what = "line" /\ drawn[k].sheet = slide}

\* C18: the cover is on the first page and every slide starts a page of its
\* own, so the saved file has at least 1 + (number of slides) pages; the
\* lines of a slide's text-bearing shapes are drawn in shape order and line
\* order, each with at most 80 characters, lower and lower on a page; a new
\* page precedes a line exactly when the cursor is below 50, so no line is
\* drawn below 50; and at the end every such line has been drawn.
C18_PptxPagination ==
    /\ \A k \in 1..Len(drawn) :
          /\ drawn[k].what = "cover" => k = 1 /\ drawn[k].page = 0
          /\ drawn[k].what = "slide" =>
                /\ drawn[k].page = drawn[k - 1].page + 1
                /\ drawn[k].page >= drawn[k].sheet
          /\ drawn[k].what = "line" =>
                /\ drawn[k].len <= MaxLineLen
                /\ drawn[k].y >= BottomMargin
                /\ IF drawn[k].y_before < BottomMargin
                   THEN drawn[k].page = drawn[k - 1].page + 1
                   ELSE /\ drawn[k].page = drawn[k - 1].page
                        /\ drawn[k].y < drawn[k - 1].y
                /\ drawn[k - 1].what = "line" =>
                      \/ drawn[k].cols = drawn[k - 1].cols
                            /\ drawn[k].row = drawn[k - 1].row + 1
                      \/ drawn[k].cols > drawn[k - 1].cols /\ drawn[k].row = 1
    /\ pc = "pptx_saved" =>
          /\ pages + 1 >= 1 + Len(presentation)
          /\ \A n \in 1..Len(presentation) :
                LET slide == presentation[n]
                    texts == {m \in 1..Len(slide) : BearsText(slide[m])}
                IN  \A m \in 1..Len(slide) :
                       {drawn[k].row : k \in {j \in LinesDrawn(n) : drawn[j].cols = m}}
                          = IF m \in texts THEN 1..Len(slide[m].lines) ELSE {}

\* C18 witness: a presentation whose second slide has 41 lines was saved
\* with more pages than 1 + its slides, the slide's last line drawn on the
\* extra page.
C18_Witness ==
    /\ pc = "pptx_saved"
    /\ Len(presentation) = 2
    /\ Cardinality(LinesDrawn(2)) = 41
    /\ pages + 1 > 1 + Len(presentation)
    /\ drawn[Len(drawn)].page = 3
    /\ drawn[Len(drawn)].row = 40

\* C19 as stated: at most one worker thread is alive at any time, and the
\* convert button is disabled as long as one is.
C19_Original ==
    /\ Cardinality(Alive) <= 1
    /\ Alive # {} => convert_button = "disabled"

C28_Original ==
    \A k \in 1..Len(drawn) : drawn[k].y >= BottomMargin

\* C23: a KeyboardInterrupt that arrives while the batch is at file k is
\* not absorbed by the failure handling: no counter moves and no attempt is
\* recorded for it, main's own handler reports it (not the handler for
\* other exceptions, and no line of convert_directory), the process exits
\* with code 1, and nothing is attempted or counted afterwards.
C23_InterruptNotAbsorbed ==
    /\ [](interrupted => (pc = "exited" /\ exit_code = 1))
    /\ [][(pc = "loop" /\ processed < Len(all_files) /\ interrupted') =>
            /\ failed_conversions' = failed_conversions
            /\ successful_conversions' = successful_conversions
            /\ processed' = processed
            /\ calls' = calls
            /\ reported' = reported
            /\ pc' = "exited"
            /\ exit_code' = 1]_vars
    /\ [][interrupted =>
            UNCHANGED << processed, calls, successful_conversions,
                         failed_conversions, exit_code, pc >>]_vars

\* C23 witness: a run over three files was interrupted at its second file,
\* after one success: one attempt, no failure, exit code 1.
C23_Witness ==
    /\ interrupted
    /\ pc = "exited"
    /\ exit_code = 1
    /\ Len(all_files) = 3
    /\ processed = 1
    /\ Len(calls) = 1
    /\ successful_conversions = 1
    /\ failed_conversions = 0

\* The PDFs this run has written completely.
WrittenThisRun(files) ==
    {p \in DOMAIN files : files[p].origin = "this run" /\ files[p].complete}

\* C22 as stated: an iteration of the per-file loop that counts a failure
\* leaves every PDF written earlier in the run in place and unchanged.
C22_Original ==
    [][failed_conversions' > failed_conversions =>
          \A p \in WrittenThisRun(fs) : p \in DOMAIN fs' /\ fs'[p] = fs[p]]_vars

\* C24 as stated: in mirror mode no two inputs of a run are given the same
\* destination, and when the loop has ended the number of PDFs written is
\* the success count.
C24_Original ==
    (maintain_structure /\ ~combine) =>
       /\ \A i, j \in 1..Len(calls) :
             (i # j /\ calls[i].dest # << >> /\ calls[j].dest # << >>)
                => calls[i].dest # calls[j].dest
       /\ pc = "returned" =>
             Cardinality(WrittenThisRun(fs)) = successful_conversions

\* C26 as stated: no file located under the output directory is enumerated
\* as an input of a batch: neither a PDF written earlier in the run nor,
\* with the default output directory inside the source root, a PDF left
\* there by a previous run.
C26_Original ==
    \A n \in 1..Len(all_files) :
       /\ all_files[n] \in tree
       /\ ~IsPrefix(<< OutputDirName >>, all_files[n].dir)

\* C21 as stated: during a per-file batch of the GUI, once the worker has
\* finished its k-th file (converted, failed or raised) the progress bar's
\* value is k, and it is n when the batch has ended.
C21_Original ==
    /\ (threads[1].pc = "loop" /\ threads[1].i >= 1) =>
          progress_bar.value = threads[1].i
    /\ threads[1].path = "complete" => progress_bar.value = threads[1].n

\* C25 as stated: in flatten mode the GUI worker gives an input the
\* destination the command line's walker gives it, the name resolved
\* against what the output directory holds at that moment, and so never
\* writes over an existing PDF.
C25_Original ==
    [][(~maintain_structure /\ Len(calls') = Len(calls) + 1) =>
          LET c == calls'[Len(calls')]
          IN  /\ c.dest = generate_unique_filename(ExistingPaths, FlatBaseName(c.src))
              /\ c.dest \notin DOMAIN fs]_vars

\* C27 as stated: every message passed to log_message is in the results
\* area exactly once as soon as its call has inserted it, and the area is
\* read-only whenever no call is under way, however the worker's calls and
\* the interface thread's interleave.
C27_Original ==
    /\ \A k \in 1..Len(log_messages) :
          (log_call.at = "insert" /\ log_call.message = log_messages[k])
          \/ Cardinality({j \in 1..Len(results_text.lines) :
                             results_text.lines[j] = log_messages[k]}) = 1
    /\ log_call.at = "idle" => results_text.state = "disabled"

====
